---- MODULE Spec2Model ----
(***************************************************************************)
(* Alpha Security Server: the device registry, the command dispatcher,    *)
(* location ingest and the presence function, as a state machine over the *)
(* SQLite tables of database.js and the Express handlers of routes/*.js.  *)
(*                                                                         *)
(* Time: `now' is the wall clock in milliseconds (JavaScript Date).        *)
(* SQLite's CURRENT_TIMESTAMP has one-second resolution, so every          *)
(* timestamp column holds whole seconds.                                   *)
(*                                                                         *)
(* The schema declares FOREIGN KEY ... ON DELETE CASCADE, but no           *)
(* connection ever runs PRAGMA foreign_keys = ON, so SQLite does not       *)
(* enforce the constraints: inserts that name a missing device succeed     *)
(* and deleting a device row removes that row only.                        *)
(***************************************************************************)
EXTENDS Integers, Sequences, FiniteSets, Bags, TLC

VARIABLES
    devices,      \* table devices: the set of rows
    commands,     \* table commands: rows in insertion (rowid) order
    locations,    \* table locations: rows in insertion (rowid) order
    device_logs,  \* table device_logs: the bag of (device_id, log_type) rows
    published,    \* the socket.io events emitted by the last step, in order
    now,          \* wall clock, milliseconds
    inflight,     \* command-route requests suspended at an await
    last,         \* the last request handled and the answer it got
    sockets,      \* socket.io connections: rooms joined, events received in the last step
    users,        \* table users: the set of rows
    geofences     \* table geofences: rows in insertion (rowid) order

vars == <<devices, commands, locations, device_logs, published, now, inflight, last,
          sockets, users, geofences>>

store == <<devices, commands, locations, device_logs>>

(***************************************************************************)
(* Bounds of the model.                                                    *)
(***************************************************************************)
MaxCommands == 2
MaxLogs == 1
MaxLocations == 1
MaxTicks == 1
MaxInflight == 2
MaxBatch == 2
MaxKeys == 5

(***************************************************************************)
(* Request inputs.  Every route sits behind authenticateApiKey, so a       *)
(* handler always runs with req.user.id set to an existing user.           *)
(***************************************************************************)
Users == {1, 2}
DeviceIds == {"d1", "d2"}
Undef == "undefined"
NoNum == -999
Null == "NULL"
NoRow == [device_id |-> Undef]
Unknown == "Unknown"

\* JavaScript !v for the string-valued body fields used here
Falsy(v) == v \in {Undef, ""}

\* JavaScript !v for the numeric body fields used here
FalsyNum(v) == v \in {NoNum, 0}

\* JavaScript a || b on string values
OrElse(a, b) == IF Falsy(a) THEN b ELSE a

(***************************************************************************)
(* Clock.                                                                  *)
(***************************************************************************)
TickMs == 1000
MaxClock == MaxTicks * TickMs

\* SQLite CURRENT_TIMESTAMP: the wall clock truncated to whole seconds
CURRENT_TIMESTAMP == now \div 1000

\* new Date(<sqlite timestamp>).getTime(): seconds back to milliseconds.
\* CURRENT_TIMESTAMP is written in UTC and new Date("YYYY-MM-DD HH:MM:SS")
\* reads local time; the server process runs with the container's default
\* zone, UTC, so the two agree.
ParseDate(ts) == ts * 1000

(***************************************************************************)
(* database.js: the tables.                                                *)
(*   devices      set of rows, device_id UNIQUE (the integer rowid is      *)
(*                never read by any handler and is left out)               *)
(*   commands     rows in insertion order, id INTEGER AUTOINCREMENT        *)
(*   locations    rows in insertion order                                  *)
(*   device_logs  bag of rows (append-only, never ordered by a handler)    *)
(***************************************************************************)
DeviceRow(userId, deviceId, deviceName, deviceModel, androidVersion) ==
    [user_id |-> userId, device_id |-> deviceId, device_name |-> deviceName,
     device_model |-> deviceModel, android_version |-> androidVersion,
     last_seen |-> CURRENT_TIMESTAMP, status |-> "active",
     is_locked |-> 0, alarm_active |-> 0, battery_level |-> NoNum]

\* INSERT OR IGNORE, for comparison: a conflicting row is kept and the new
\* one dropped
registerDevice_InsertOrIgnore(devs, userId, deviceId, deviceName, deviceModel, androidVersion) ==
    IF \E r \in devs : r.device_id = deviceId THEN devs
    ELSE devs \cup {[user_id |-> userId, device_id |-> deviceId, device_name |-> deviceName,
                     device_model |-> deviceModel, android_version |-> androidVersion,
                     last_seen |-> now \div 1000, status |-> "active",
                     is_locked |-> 0, alarm_active |-> 0, battery_level |-> NoNum]}

\* INSERT OR REPLACE INTO devices: the row that conflicts on the UNIQUE
\* device_id is deleted, then the new row is inserted; the columns the
\* statement does not name take their DEFAULTs
registerDevice(devs, userId, deviceId, deviceName, deviceModel, androidVersion) ==
    {r \in devs : r.device_id # deviceId}
        \cup {DeviceRow(userId, deviceId, deviceName, deviceModel, androidVersion)}

\* SELECT * FROM devices WHERE device_id = ?  (one row or undefined)
getDeviceById(deviceId) ==
    IF \E r \in devices : r.device_id = deviceId
    THEN CHOOSE r \in devices : r.device_id = deviceId
    ELSE NoRow

\* SELECT * FROM devices WHERE user_id = ?
getDevicesByUserId(userId) == {r \in devices : r.user_id = userId}

\* for comparison: a write of the whole row, the columns it does not name
\* going back to their defaults
updateDeviceStatus_WholeRow(devs, deviceId, status) ==
    {IF r.device_id = deviceId
     THEN [r EXCEPT !.status = status, !.last_seen = now \div 1000,
                    !.is_locked = 0, !.alarm_active = 0]
     ELSE r : r \in devs}

\* UPDATE devices SET <col> = ?, last_seen = CURRENT_TIMESTAMP WHERE device_id = ?
updateDeviceStatus(devs, deviceId, status) ==
    {IF r.device_id = deviceId
     THEN [r EXCEPT !.status = status, !.last_seen = CURRENT_TIMESTAMP]
     ELSE r : r \in devs}

updateDeviceLockStatus(devs, deviceId, isLocked) ==
    {IF r.device_id = deviceId
     THEN [r EXCEPT !.is_locked = IF isLocked THEN 1 ELSE 0,
                    !.last_seen = CURRENT_TIMESTAMP]
     ELSE r : r \in devs}

updateDeviceAlarmStatus(devs, deviceId, alarmActive) ==
    {IF r.device_id = deviceId
     THEN [r EXCEPT !.alarm_active = IF alarmActive THEN 1 ELSE 0,
                    !.last_seen = CURRENT_TIMESTAMP]
     ELSE r : r \in devs}

\* for comparison: last_seen is left as it is
updateDeviceLastSeen_Stale(devs, deviceId) == devs

updateDeviceLastSeen(devs, deviceId) ==
    {IF r.device_id = deviceId
     THEN [r EXCEPT !.last_seen = CURRENT_TIMESTAMP]
     ELSE r : r \in devs}

updateDeviceBatteryLevel(devs, deviceId, batteryLevel) ==
    {IF r.device_id = deviceId
     THEN [r EXCEPT !.battery_level = batteryLevel,
                    !.last_seen = CURRENT_TIMESTAMP]
     ELSE r : r \in devs}

\* DELETE FROM devices WHERE device_id = ?   (foreign keys are not enforced)
removeDevice(devs, deviceId) == {r \in devs : r.device_id # deviceId}

\* AUTOINCREMENT: one more than the largest id ever used; no statement
\* deletes from these tables, so that is the largest id present
LastId(rows) ==
    IF Len(rows) = 0 THEN 0
    ELSE CHOOSE m \in {rows[i].id : i \in 1..Len(rows)} :
            \A i \in 1..Len(rows) : rows[i].id <= m

NextId(rows) == LastId(rows) + 1

\* for comparison: an insert that stores nothing
createCommand_Dropped(cmds, deviceId, userId, commandType) == cmds

\* INSERT INTO commands (device_id, user_id, command_type, command_data):
\* status DEFAULT 'pending', sent_at DEFAULT CURRENT_TIMESTAMP
createCommand(cmds, deviceId, userId, commandType) ==
    Append(cmds, [id |-> NextId(cmds), device_id |-> deviceId, user_id |-> userId,
                  command_type |-> commandType, status |-> "pending",
                  sent_at |-> CURRENT_TIMESTAMP, executed_at |-> NoNum,
                  response |-> Null])

\* the update guarded by ... WHERE id = ? AND status = 'pending', for comparison
updateCommandStatus_OnlyPending(cmds, commandId, status, response) ==
    [i \in 1..Len(cmds) |->
        IF cmds[i].id = commandId /\ cmds[i].status = "pending"
        THEN [cmds[i] EXCEPT !.status = status, !.response = response,
                             !.executed_at = now \div 1000]
        ELSE cmds[i]]

\* UPDATE commands SET status = ?, response = ?, executed_at = CURRENT_TIMESTAMP
\* WHERE id = ?
updateCommandStatus(cmds, commandId, status, response) ==
    [i \in 1..Len(cmds) |->
        IF cmds[i].id = commandId
        THEN [cmds[i] EXCEPT !.status = status, !.response = response,
                             !.executed_at = CURRENT_TIMESTAMP]
        ELSE cmds[i]]

\* INSERT INTO device_logs (device_id, log_type, message): one more row with
\* these two columns (id, message and timestamp are read by no handler).
\* The model counts equal rows up to MaxLogs: a count of MaxLogs stands
\* for MaxLogs rows or more.
LogRow(deviceId, logType) == [device_id |-> deviceId, log_type |-> logType]

logDeviceActivity(logs, deviceId, logType) ==
    IF CopiesIn(LogRow(deviceId, logType), logs) < MaxLogs
    THEN logs (+) SetToBag({LogRow(deviceId, logType)})
    ELSE logs

\* INSERT INTO locations (...): the timestamp column gets the handler's
\* new Date().toISOString(), the wall clock in milliseconds; a body without
\* accuracy and source stores accuracy NULL and source 'gps'
saveLocation(locs, deviceId, latitude, longitude) ==
    Append(locs, [id |-> NextId(locs), device_id |-> deviceId,
                  latitude |-> latitude, longitude |-> longitude,
                  accuracy |-> NoNum, source |-> "gps",
                  timestamp |-> now])

\* a sort that puts a row before the rows of equal sent_at, for comparison
InsertBySentAt_TiesFirst(sorted, row) ==
    LET keep == {i \in 1..Len(sorted) : sorted[i].sent_at < row.sent_at}
        k == Cardinality(keep)
    IN  SubSeq(sorted, 1, k) \o <<row>> \o SubSeq(sorted, k + 1, Len(sorted))

\* ORDER BY sent_at ASC over rows scanned in rowid order: rows with equal
\* sent_at keep their scan order
InsertBySentAt(sorted, row) ==
    LET keep == {i \in 1..Len(sorted) : sorted[i].sent_at <= row.sent_at}
        k == Cardinality(keep)
    IN  SubSeq(sorted, 1, k) \o <<row>> \o SubSeq(sorted, k + 1, Len(sorted))

RECURSIVE OrderBySentAt(_)
OrderBySentAt(rows) ==
    IF rows = <<>> THEN <<>>
    ELSE InsertBySentAt(OrderBySentAt(SubSeq(rows, 1, Len(rows) - 1)), rows[Len(rows)])

IsPendingFor(row, deviceId) == row.device_id = deviceId /\ row.status = "pending"

\* the query with LIMIT 1, for comparison: only the oldest pending command
getPendingCommands_Limit1(cmds, deviceId) ==
    LET P(row) == IsPendingFor(row, deviceId)
        all == OrderBySentAt(SelectSeq(cmds, P))
    IN  IF all = <<>> THEN <<>> ELSE <<all[1]>>

\* SELECT * FROM commands WHERE device_id = ? AND status = 'pending'
\* ORDER BY sent_at ASC
getPendingCommands(cmds, deviceId) ==
    LET P(row) == IsPendingFor(row, deviceId)
    IN  OrderBySentAt(SelectSeq(cmds, P))

Ids(rows) == [i \in 1..Len(rows) |-> rows[i].id]

(***************************************************************************)
(* socket.io rooms (server.js) and io.to(room).emit(name, payload).        *)
(* Nothing stores an emitted event: `published' holds what the last step   *)
(* emitted.                                                                *)
(***************************************************************************)
DeviceRoom(deviceId) == "device-" \o deviceId
DashboardRoom(userId) == "dashboard-" \o ToString(userId)
UserRoom(userId) == "user-" \o ToString(userId)

Event(room, name, deviceId, commandId, status) ==
    [room |-> room, name |-> name, deviceId |-> deviceId,
     commandId |-> commandId, status |-> status]

\* the socket.io connections; a connection is in the rooms it joined
Conns == {"c1", "c2"}

NoSocket == [rooms |-> {}, inbox |-> <<>>]

\* for comparison, io.emit(...): every event reaches every connection
Received_Broadcast(c, events) == events

\* io.to(room).emit(...): the events of a sequence that reach connection c,
\* the ones sent to a room c is in when they are emitted
Received(c, events) ==
    LET Mine(e) == e.room \in sockets[c].rooms
    IN  SelectSeq(events, Mine)

\* every step hands the events it emits to the members of their rooms;
\* nothing keeps an event for a later step
Deliver ==
    sockets' = [c \in Conns |-> [sockets[c] EXCEPT !.inbox = Received(c, published')]]

(***************************************************************************)
(* What the last handled request was and what it was answered.             *)
(***************************************************************************)
NoLast ==
    [op |-> "none", user |-> 0, deviceId |-> Undef, code |-> 0, error |-> "",
     commandId |-> NoNum, status |-> Undef, prev |-> Undef, token |-> Undef,
     name |-> Undef, model |-> Undef, version |-> Undef,
     latitude |-> NoNum, longitude |-> NoNum,
     devices |-> <<>>, results |-> <<>>, pending |-> <<>>,
     query |-> [startDate |-> Undef, endDate |-> Undef, limit |-> Undef,
                source |-> Undef, minAccuracy |-> Undef],
     totalPoints |-> 0, totalDistanceKm |-> 0, battery_level |-> NoNum,
     samples |-> <<>>, successCount |-> 0, errorCount |-> 0,
     path |-> <<>>, sent |-> <<>>]

Reply(op, userId, deviceId, code, error) ==
    [NoLast EXCEPT !.op = op, !.user = userId, !.deviceId = deviceId,
                   !.code = code, !.error = error]

\* `!device || device.user_id !== req.user.id`
NotOwned(device, userId) == device = NoRow \/ device.user_id # userId

\* bcrypt.hash(password, 12): a password is the sequence of its characters,
\* its hash another sequence that differs from it
bcryptHash(password) == <<"$2a$12$">> \o password

\* bcrypt.compare(password, hash)
bcryptCompare(password, hash) == hash = bcryptHash(password)

\* the password both seeded users registered with
SeedPassword == <<"s", "e", "c", "r", "e", "t">>

\* table users as the requests of Users find it: id INTEGER AUTOINCREMENT,
\* username, email and api_key UNIQUE, password_hash
SeedUsers ==
    {[id |-> 1, username |-> "u1", email |-> "e1", api_key |-> "k1",
      password_hash |-> bcryptHash(SeedPassword)],
     [id |-> 2, username |-> "u2", email |-> "e2", api_key |-> "k2",
      password_hash |-> bcryptHash(SeedPassword)]}

NoUser == [id |-> 0, username |-> Undef, email |-> Undef, api_key |-> Undef,
           password_hash |-> <<>>]

Idle == [pc |-> "idle", route |-> "none", user |-> 0, deviceId |-> Undef,
         token |-> Undef, commandId |-> NoNum, username |-> Undef, email |-> Undef,
         status |-> Undef, password |-> <<>>]

Slots == 1..MaxInflight

Init ==
    /\ devices = {}
    /\ commands = <<>>
    /\ locations = <<>>
    /\ device_logs = EmptyBag
    /\ published = <<>>
    /\ now = 0
    /\ inflight = [s \in Slots |-> Idle]
    /\ last = NoLast
    /\ sockets = [c \in Conns |-> NoSocket]
    /\ users = SeedUsers
    /\ geofences = <<>>

(***************************************************************************)
(* routes/devices.js                                                       *)
(***************************************************************************)
\* POST /api/devices/register
Register(userId, deviceId, deviceName, deviceModel, androidVersion) ==
    LET req == [Reply("register", userId, deviceId, 0, "") EXCEPT
                    !.name = deviceName, !.model = deviceModel,
                    !.version = androidVersion,
                    !.prev = IF getDeviceById(deviceId) = NoRow THEN Undef
                             ELSE getDeviceById(deviceId).device_name]
    IN  /\ IF Falsy(deviceId) \/ Falsy(deviceName)
           THEN /\ last' = [req EXCEPT !.code = 400,
                                       !.error = "Device ID and name are required"]
                /\ UNCHANGED store
           ELSE /\ devices' = registerDevice(devices, userId, deviceId, deviceName,
                                             OrElse(deviceModel, Unknown),
                                             OrElse(androidVersion, Unknown))
                /\ device_logs' = logDeviceActivity(device_logs, deviceId, "registration")
                /\ last' = [req EXCEPT !.code = 201, !.status = "active"]
                /\ UNCHANGED <<commands, locations>>
        /\ published' = <<>>
        /\ UNCHANGED <<now, inflight>>
        /\ Deliver
        /\ UNCHANGED <<users, geofences>>

\* diffMinutes < 5, for comparison
isDeviceOnline_Strict(lastSeen) == (now - lastSeen * 1000) < 5 * (1000 * 60)

\* isDeviceOnline(lastSeen): diffMinutes = (now - lastSeenTime) / (1000 * 60);
\* return diffMinutes <= 5  (the division multiplied out)
isDeviceOnline(lastSeen) ==
    LET lastSeenTime == ParseDate(lastSeen)
    IN  (now - lastSeenTime) <= 5 * (1000 * 60)

\* GET /api/devices/:deviceId : the answer
GetDeviceReply(userId, deviceId) ==
    LET device == getDeviceById(deviceId)
    IN  IF device = NoRow
        THEN Reply("getDevice", userId, deviceId, 404, "Device not found")
        ELSE IF device.user_id # userId
        THEN Reply("getDevice", userId, deviceId, 403, "Access denied")
        ELSE [Reply("getDevice", userId, deviceId, 200, "") EXCEPT
                  !.results = <<[device_id |-> deviceId,
                                 isOnline |-> isDeviceOnline(device.last_seen)]>>]

\* POST /api/devices/:deviceId/heartbeat : the answer
HeartbeatReply(userId, deviceId) ==
    IF NotOwned(getDeviceById(deviceId), userId)
    THEN Reply("heartbeat", userId, deviceId, 404, "Device not found")
    ELSE [Reply("heartbeat", userId, deviceId, 200, "") EXCEPT
              !.pending = Ids(getPendingCommands(commands, deviceId))]

\* POST /api/devices/:deviceId/heartbeat
\* for comparison: the status is written before the owner is checked
Heartbeat_WriteFirst(userId, deviceId, status) ==
    LET reply == HeartbeatReply(userId, deviceId)
    IN  /\ last' = reply
        /\ devices' = updateDeviceStatus(devices, deviceId,
                                         IF status = Undef THEN "active" ELSE status)
        /\ device_logs' = IF reply.code = 404 THEN device_logs
                          ELSE logDeviceActivity(device_logs, deviceId, "heartbeat")
        /\ published' = <<>>
        /\ UNCHANGED <<commands, locations, now, inflight>>
        /\ Deliver
        /\ UNCHANGED <<users, geofences>>

Heartbeat(userId, deviceId, status) ==
    LET reply == HeartbeatReply(userId, deviceId)
    IN  /\ last' = reply
        /\ IF reply.code = 404
           THEN UNCHANGED store
           ELSE /\ devices' = updateDeviceStatus(devices, deviceId,
                                                 IF status = Undef THEN "active" ELSE status)
                /\ device_logs' = logDeviceActivity(device_logs, deviceId, "heartbeat")
                /\ UNCHANGED <<commands, locations>>
        /\ published' = <<>>
        /\ UNCHANGED <<now, inflight>>
        /\ Deliver
        /\ UNCHANGED <<users, geofences>>

\* GET /api/devices/:deviceId/logs : the answer
GetLogsReply(userId, deviceId) ==
    IF NotOwned(getDeviceById(deviceId), userId)
    THEN Reply("getLogs", userId, deviceId, 404, "Device not found")
    ELSE Reply("getLogs", userId, deviceId, 200, "")

\* DELETE /api/devices/:deviceId : the answer
DeleteReply(userId, deviceId) ==
    IF NotOwned(getDeviceById(deviceId), userId)
    THEN Reply("delete", userId, deviceId, 404, "Device not found")
    ELSE Reply("delete", userId, deviceId, 200, "")

\* DELETE /api/devices/:deviceId
DeleteDevice(userId, deviceId) ==
    LET reply == DeleteReply(userId, deviceId)
    IN  /\ last' = reply
        /\ devices' = IF reply.code = 404 THEN devices ELSE removeDevice(devices, deviceId)
        /\ published' = <<>>
        /\ UNCHANGED <<commands, locations, device_logs, now, inflight>>
        /\ Deliver
        /\ UNCHANGED <<users, geofences>>

\* GET /api/devices : the answer, one entry per device of the user
ListDevicesReply(userId) ==
    LET mine == getDevicesByUserId(userId)
        ListOf[S \in SUBSET mine] ==
            IF S = {} THEN <<>>
            ELSE LET r == CHOOSE x \in S : \A y \in S : y.last_seen <= x.last_seen
                 IN  <<[device_id |-> r.device_id,
                        isOnline |-> isDeviceOnline(r.last_seen)]>> \o ListOf[S \ {r}]
    IN  [Reply("listDevices", userId, Undef, 200, "") EXCEPT !.results = ListOf[mine]]

\* POST /api/devices/:deviceId/command-response.  emitThrows: the call
\* io.to(...).emit(...) of this request throws; it sits in the handler's one
\* try block, after the writes
CommandResponse(userId, deviceId, commandId, status, detail, emitThrows) ==
    LET req == [Reply("commandResponse", userId, deviceId, 0, "") EXCEPT
                    !.commandId = commandId, !.status = status,
                    !.prev = IF \E i \in 1..Len(commands) : commands[i].id = commandId
                             THEN commands[CHOOSE i \in 1..Len(commands) :
                                               commands[i].id = commandId].status
                             ELSE Undef]
        device == getDeviceById(deviceId)
    IN  /\ IF FalsyNum(commandId) \/ Falsy(status)
           THEN /\ last' = [req EXCEPT !.code = 400,
                                       !.error = "Command ID and status are required"]
                /\ published' = <<>>
                /\ UNCHANGED store
           ELSE /\ commands' = updateCommandStatus(commands, commandId, status,
                                   OrElse(detail.response, OrElse(detail.error, Null)))
                /\ device_logs' = logDeviceActivity(device_logs, deviceId, "command_response")
                /\ published' = IF device # NoRow /\ ~emitThrows
                                THEN <<Event(DashboardRoom(device.user_id), "command-executed",
                                             deviceId, commandId, status)>>
                                ELSE <<>>
                /\ last' = IF device # NoRow /\ emitThrows
                           THEN [req EXCEPT !.code = 500,
                                            !.error = "Failed to process command response"]
                           ELSE [req EXCEPT !.code = 200]
                /\ UNCHANGED <<devices, locations>>
        /\ UNCHANGED <<now, inflight>>
        /\ Deliver
        /\ UNCHANGED <<users, geofences>>

(***************************************************************************)
(* routes/commands.js                                                      *)
(***************************************************************************)
CONFIRM_FACTORY_RESET == "CONFIRM_FACTORY_RESET"

Routes == {"lock", "unlock", "locate", "alarmStart", "alarmStop", "wipe"}

CommandType(route) ==
    CASE route = "lock" -> "LOCK_DEVICE"
      [] route = "unlock" -> "UNLOCK_DEVICE"
      [] route = "locate" -> "REQUEST_LOCATION"
      [] route = "alarmStart" -> "START_ALARM"
      [] route = "alarmStop" -> "STOP_ALARM"
      [] route = "wipe" -> "FACTORY_RESET"

LogType(route) == IF route = "wipe" THEN "critical_command" ELSE "command_sent"

\* the routes that write a cached flag after the command is stored
WritesFlag(route) == route \in {"lock", "unlock", "alarmStart", "alarmStop"}

\* for comparison: no route writes a flag (the flags would follow the
\* device's command-response)
ApplyFlag_OnConfirm(devs, route, deviceId) == devs

\* the cached-flag write of a route
ApplyFlag(devs, route, deviceId) ==
    CASE route = "lock" -> updateDeviceLockStatus(devs, deviceId, TRUE)
      [] route = "unlock" -> updateDeviceLockStatus(devs, deviceId, FALSE)
      [] route = "alarmStart" -> updateDeviceAlarmStatus(devs, deviceId, TRUE)
      [] route = "alarmStop" -> updateDeviceAlarmStatus(devs, deviceId, FALSE)
      [] OTHER -> devs

\* `!confirmWipe`, for comparison: only a missing token is rejected
WipeRejected_OnlyMissing(route, confirmWipe) ==
    route = "wipe" /\ confirmWipe = Undef

\* the wipe route's `confirmWipe !== 'CONFIRM_FACTORY_RESET'`
WipeRejected(route, confirmWipe) ==
    route = "wipe" /\ confirmWipe # CONFIRM_FACTORY_RESET

\* POST /api/commands/:deviceId/<route>, up to the ownership check: the
\* handler answers 400 or 404 here, or goes on to store the command; a
\* suspended handler is kept in the lowest free slot s
CreateStart(s, userId, deviceId, route, confirmWipe) ==
    LET req == [Reply(route, userId, deviceId, 0, "") EXCEPT !.token = confirmWipe]
    IN  /\ route # "wipe" => confirmWipe = Undef
        /\ IF WipeRejected(route, confirmWipe)
           THEN /\ last' = [req EXCEPT !.code = 400, !.error = "Wipe confirmation required"]
                /\ UNCHANGED inflight
           ELSE IF NotOwned(getDeviceById(deviceId), userId)
           THEN /\ last' = [req EXCEPT !.code = 404, !.error = "Device not found"]
                /\ UNCHANGED inflight
           ELSE /\ inflight[s] = Idle
                /\ \A t \in Slots : t < s => inflight[t] # Idle
                /\ last' = [NoLast EXCEPT !.op = "createStep", !.user = userId]
                /\ inflight' = [inflight EXCEPT ![s] =
                       [Idle EXCEPT !.pc = "insert", !.route = route, !.user = userId,
                                    !.deviceId = deviceId, !.token = confirmWipe]]
        /\ published' = <<>>
        /\ UNCHANGED <<store, now>>
        /\ Deliver
        /\ UNCHANGED <<users, geofences>>

\* a create handler is suspended at an await: nothing has been answered yet
Step(s) == [NoLast EXCEPT !.op = "createStep", !.user = inflight[s].user]

\* await db.createCommand(deviceId, req.user.id, type, payload)
CreateInsert(s) ==
    /\ inflight[s].pc = "insert"
    /\ Len(commands) < MaxCommands
    /\ commands' = createCommand(commands, inflight[s].deviceId, inflight[s].user,
                                 CommandType(inflight[s].route))
    /\ inflight' = [inflight EXCEPT ![s].commandId = LastId(commands'),
                        ![s].pc = IF WritesFlag(inflight[s].route) THEN "flag" ELSE "log"]
    /\ last' = Step(s)
    /\ published' = <<>>
    /\ UNCHANGED <<devices, locations, device_logs, now>>
    /\ Deliver
    /\ UNCHANGED <<users, geofences>>

\* await db.updateDeviceLockStatus / updateDeviceAlarmStatus
CreateFlag(s) ==
    /\ inflight[s].pc = "flag"
    /\ devices' = ApplyFlag(devices, inflight[s].route, inflight[s].deviceId)
    /\ inflight' = [inflight EXCEPT ![s].pc = "log"]
    /\ last' = Step(s)
    /\ published' = <<>>
    /\ UNCHANGED <<commands, locations, device_logs, now>>
    /\ Deliver
    /\ UNCHANGED <<users, geofences>>

\* await db.logDeviceActivity(deviceId, 'command_sent', ...)
CreateLog(s) ==
    /\ inflight[s].pc = "log"
    /\ device_logs' = logDeviceActivity(device_logs, inflight[s].deviceId,
                                        LogType(inflight[s].route))
    /\ inflight' = [inflight EXCEPT ![s].pc = "emit"]
    /\ last' = Step(s)
    /\ published' = <<>>
    /\ UNCHANGED <<devices, commands, locations, now>>
    /\ Deliver
    /\ UNCHANGED <<users, geofences>>

\* io.to(`device-${deviceId}`).emit('remote-command', ...); res.status(201)
CreateRespond(s) ==
    /\ inflight[s].pc = "emit"
    /\ published' = <<Event(DeviceRoom(inflight[s].deviceId), "remote-command",
                            inflight[s].deviceId, inflight[s].commandId,
                            CommandType(inflight[s].route))>>
    /\ last' = [Reply(inflight[s].route, inflight[s].user, inflight[s].deviceId, 201, "")
                    EXCEPT !.commandId = inflight[s].commandId, !.status = "pending",
                           !.token = inflight[s].token]
    /\ inflight' = [inflight EXCEPT ![s] = Idle]
    /\ UNCHANGED <<store, now>>
    /\ Deliver
    /\ UNCHANGED <<users, geofences>>

\* for comparison: a pending list that marks what it returns as delivered
GetPending_MarksDelivered(userId, deviceId) ==
    /\ last' = [Reply("getPending", userId, deviceId, 200, "") EXCEPT
                    !.pending = Ids(getPendingCommands(commands, deviceId))]
    /\ commands' = [i \in 1..Len(commands) |->
                       IF IsPendingFor(commands[i], deviceId)
                       THEN [commands[i] EXCEPT !.status = "delivered"]
                       ELSE commands[i]]
    /\ published' = <<>>
    /\ UNCHANGED <<devices, locations, device_logs, now, inflight>>
    /\ Deliver
    /\ UNCHANGED <<users, geofences>>

\* GET /api/commands/:deviceId/pending
GetPending(userId, deviceId) ==
    /\ last' = [Reply("getPending", userId, deviceId, 200, "") EXCEPT
                    !.pending = Ids(getPendingCommands(commands, deviceId))]
    /\ published' = <<>>
    /\ UNCHANGED <<store, now, inflight>>
    /\ Deliver
    /\ UNCHANGED <<users, geofences>>

\* POST /api/commands/batch: one pass of the loop body for one deviceId.
\* fault names the store call of this pass that rejects, if any.
Faults == {"none", "get", "create", "log"}
StoreError == "store error"

BatchFail(acc, deviceId, error) ==
    [acc EXCEPT !.results = Append(@, [deviceId |-> deviceId, success |-> FALSE,
                                       commandId |-> NoNum, error |-> error])]

BatchPass(acc, userId, deviceId, commandType, fault) ==
    IF fault = "get" THEN BatchFail(acc, deviceId, StoreError)
    ELSE IF NotOwned(getDeviceById(deviceId), userId)
    THEN BatchFail(acc, deviceId, "Device not found or access denied")
    ELSE IF fault = "create" THEN BatchFail(acc, deviceId, StoreError)
    ELSE LET cmds == createCommand(acc.commands, deviceId, userId, commandType)
             stored == [acc EXCEPT !.commands = cmds]
         IN  IF fault = "log" THEN BatchFail(stored, deviceId, StoreError)
             ELSE [stored EXCEPT
                     !.device_logs = logDeviceActivity(@, deviceId, "batch_command"),
                     !.published = Append(@, Event(DeviceRoom(deviceId), "remote-command",
                                                   deviceId, LastId(cmds), commandType)),
                     !.results = Append(@, [deviceId |-> deviceId, success |-> TRUE,
                                            commandId |-> LastId(cmds), error |-> ""])]

\* for (const deviceId of devices) { try { ... } catch (error) { ... } }
RECURSIVE BatchLoop(_, _, _, _, _, _)
BatchLoop(acc, userId, devs, commandType, faults, i) ==
    IF i > Len(devs) THEN acc
    ELSE BatchLoop(BatchPass(acc, userId, devs[i], commandType, faults[i]),
                   userId, devs, commandType, faults, i + 1)

BatchDevices == UNION {[1..n -> DeviceIds] : n \in 0..MaxBatch}

\* POST /api/commands/batch
BatchCommand(userId, devs, commandType, faults) ==
    LET req == [Reply("batch", userId, Undef, 0, "") EXCEPT !.devices = devs,
                                                           !.status = commandType]
        acc == BatchLoop([commands |-> commands, device_logs |-> device_logs,
                          published |-> <<>>, results |-> <<>>],
                         userId, devs, commandType, faults, 1)
    IN  /\ IF Len(devs) = 0
           THEN /\ last' = [req EXCEPT !.code = 400, !.error = "Devices array is required"]
                /\ published' = <<>>
                /\ UNCHANGED store
           ELSE IF Falsy(commandType)
           THEN /\ last' = [req EXCEPT !.code = 400, !.error = "Command type is required"]
                /\ published' = <<>>
                /\ UNCHANGED store
           ELSE /\ Len(acc.commands) <= MaxCommands
                /\ commands' = acc.commands
                /\ device_logs' = acc.device_logs
                /\ published' = acc.published
                /\ last' = [req EXCEPT !.code = 200, !.results = acc.results]
                /\ UNCHANGED <<devices, locations>>
        /\ UNCHANGED <<now, inflight>>
        /\ Deliver
        /\ UNCHANGED <<users, geofences>>

(***************************************************************************)
(* routes/location.js                                                      *)
(***************************************************************************)
\* POST /api/location/:deviceId/update : the answer
LocationUpdateReply(userId, deviceId, latitude, longitude) ==
    LET req == [Reply("locationUpdate", userId, deviceId, 0, "") EXCEPT
                    !.latitude = latitude, !.longitude = longitude]
    IN  IF FalsyNum(latitude) \/ FalsyNum(longitude)
        THEN [req EXCEPT !.code = 400, !.error = "Latitude and longitude are required"]
        ELSE IF NotOwned(getDeviceById(deviceId), userId)
        THEN [req EXCEPT !.code = 404, !.error = "Device not found"]
        ELSE [req EXCEPT !.code = 200]

\* POST /api/location/:deviceId/update.  emitThrows: the call
\* io.to(...).emit(...) of this request throws; it sits in the handler's one
\* try block, after the writes
LocationUpdate(userId, deviceId, latitude, longitude, battery_level, emitThrows) ==
    LET reply == LocationUpdateReply(userId, deviceId, latitude, longitude)
        seen == updateDeviceLastSeen(devices, deviceId)
    IN  /\ last' = IF reply.code = 200 /\ emitThrows
                   THEN [reply EXCEPT !.code = 500, !.error = "Failed to update location",
                                      !.battery_level = battery_level]
                   ELSE [reply EXCEPT !.battery_level = battery_level]
        /\ IF reply.code # 200
           THEN /\ published' = <<>>
                /\ UNCHANGED store
           ELSE /\ Len(locations) < MaxLocations
                /\ locations' = saveLocation(locations, deviceId, latitude, longitude)
                /\ devices' = IF FalsyNum(battery_level) THEN seen
                              ELSE updateDeviceBatteryLevel(seen, deviceId, battery_level)
                /\ device_logs' = logDeviceActivity(device_logs, deviceId, "location_update")
                /\ published' = IF emitThrows THEN <<>>
                                ELSE <<Event(UserRoom(userId), "location-update",
                                             deviceId, NoNum, Undef)>>
                /\ UNCHANGED commands
        /\ UNCHANGED <<now, inflight>>
        /\ Deliver
        /\ UNCHANGED <<users, geofences>>

\* SELECT * FROM locations WHERE device_id = ? ORDER BY timestamp DESC LIMIT 1
\* returns a row
HasLocation(deviceId) == \E i \in 1..Len(locations) : locations[i].device_id = deviceId

\* GET /api/location/:deviceId/latest : the answer
LatestLocationReply(userId, deviceId) ==
    IF NotOwned(getDeviceById(deviceId), userId)
    THEN Reply("latestLocation", userId, deviceId, 404, "Device not found")
    ELSE IF ~HasLocation(deviceId)
    THEN Reply("latestLocation", userId, deviceId, 404, "No location data found for this device")
    ELSE Reply("latestLocation", userId, deviceId, 200, "")

\* GET /api/location/:deviceId/history : the answer
LocationHistoryReply(userId, deviceId) ==
    IF NotOwned(getDeviceById(deviceId), userId)
    THEN Reply("locationHistory", userId, deviceId, 404, "Device not found")
    ELSE Reply("locationHistory", userId, deviceId, 200, "")

(***************************************************************************)
(* server.js, setupWebSocket: a connection joins a room on request; no     *)
(* handler checks who asks.                                                *)
(***************************************************************************)
Join(c, room) ==
    /\ sockets' = [x \in Conns |->
                      [rooms |-> IF x = c THEN sockets[x].rooms \cup {room}
                                 ELSE sockets[x].rooms,
                       inbox |-> <<>>]]
    /\ last' = [NoLast EXCEPT !.op = "join"]
    /\ published' = <<>>
    /\ UNCHANGED <<store, now, inflight, users, geofences>>

\* socket.on('join-device', deviceId)
JoinDevice(c, deviceId) == Join(c, DeviceRoom(deviceId))

\* socket.on('join-dashboard', userId)
JoinDashboard(c, userId) == Join(c, DashboardRoom(userId))

\* socket.on('join-user-room', userId)
JoinUserRoom(c, userId) == Join(c, UserRoom(userId))

(***************************************************************************)
(* The read-only routes.                                                   *)
(***************************************************************************)
ReadRoutes == {"getDevice", "getLogs", "latestLocation", "locationHistory"}

ReadReply(route, userId, deviceId) ==
    CASE route = "getDevice" -> GetDeviceReply(userId, deviceId)
      [] route = "getLogs" -> GetLogsReply(userId, deviceId)
      [] route = "latestLocation" -> LatestLocationReply(userId, deviceId)
      [] route = "locationHistory" -> LocationHistoryReply(userId, deviceId)

\* a GET on one of the device-scoped read routes
Read(route, userId, deviceId) ==
    /\ last' = ReadReply(route, userId, deviceId)
    /\ published' = <<>>
    /\ UNCHANGED <<store, now, inflight>>
    /\ Deliver
    /\ UNCHANGED <<users, geofences>>

\* GET /api/devices
ListDevices(userId) ==
    /\ last' = ListDevicesReply(userId)
    /\ published' = <<>>
    /\ UNCHANGED <<store, now, inflight>>
    /\ Deliver
    /\ UNCHANGED <<users, geofences>>

(***************************************************************************)
(* The clock advances by step milliseconds.                                *)
(***************************************************************************)
Advance(step, limit) ==
    /\ now + step <= limit
    /\ now' = now + step
    /\ last' = [NoLast EXCEPT !.op = "tick"]
    /\ published' = <<>>
    /\ UNCHANGED <<store, inflight>>
    /\ Deliver
    /\ UNCHANGED <<users, geofences>>

Tick == Advance(TickMs, MaxClock)

(***************************************************************************)
(* Request inputs of the complete system.                                  *)
(***************************************************************************)
DeviceNames == {Undef, "n1", "n2"}
DeviceModels == {Undef, "m1"}
AndroidVersions == {Undef, "v1"}
HeartbeatStatuses == {Undef, "inactive"}
ResolveStatuses == {Undef, "completed", "failed", "pending"}
ResolveDetails ==
    {[response |-> Undef, error |-> Undef],
     [response |-> "ok", error |-> Undef],
     [response |-> Undef, error |-> "err"]}
CommandIds == {NoNum} \cup (1..MaxCommands)
WipeTokens == {Undef, "yes", CONFIRM_FACTORY_RESET}
BatchTypes == {Undef, "LOCK_DEVICE"}
Latitudes == {NoNum, 0, 45}
Longitudes == {NoNum, 90}
BatteryLevels == {NoNum, 50}

(***************************************************************************)
(* The command lifecycle: user 1 registers d1; both users issue lock and   *)
(* wipe commands and send command-responses for d1.                        *)
(***************************************************************************)
LifecycleDetails == {[response |-> "ok", error |-> Undef]}
LifecycleStatuses == {Undef, "completed", "failed"}

NextLifecycle ==
    \/ Register(1, "d1", "n1", Undef, Undef)
    \/ \E u \in Users, c \in CommandIds, st \in LifecycleStatuses,
          r \in LifecycleDetails : CommandResponse(u, "d1", c, st, r, FALSE)
    \/ \E u \in Users, r \in {"lock", "wipe"}, t \in WipeTokens :
          CreateStart(1, u, "d1", r, t)
    \/ CreateInsert(1)
    \/ CreateFlag(1)
    \/ CreateLog(1)
    \/ CreateRespond(1)

SpecLifecycle == Init /\ [][NextLifecycle]_vars

(***************************************************************************)
(* Concurrent creates: user 1 has registered d1; several locate requests   *)
(* for d1 are in flight at once while the clock advances and the device    *)
(* polls and responds.                                                     *)
(***************************************************************************)
InitConcurrent ==
    /\ now = 0
    /\ devices = {DeviceRow(1, "d1", "n1", Unknown, Unknown)}
    /\ commands = <<>>
    /\ locations = <<>>
    /\ device_logs = SetToBag({LogRow("d1", "registration")})
    /\ published = <<>>
    /\ inflight = [s \in Slots |-> Idle]
    /\ last = NoLast
    /\ sockets = [c \in Conns |-> NoSocket]
    /\ users = SeedUsers
    /\ geofences = <<>>

NextConcurrent ==
    \/ \E c \in 1..MaxCommands :
          CommandResponse(1, "d1", c, "completed", [response |-> Undef, error |-> Undef],
                          FALSE)
    \/ \E s \in Slots : CreateStart(s, 1, "d1", "locate", Undef)
    \/ \E s \in Slots : CreateInsert(s)
    \/ \E s \in Slots : CreateLog(s)
    \/ \E s \in Slots : CreateRespond(s)
    \/ GetPending(1, "d1")
    \/ Tick

SpecConcurrent == InitConcurrent /\ [][NextConcurrent]_vars

(***************************************************************************)
(* The device registry: both users register and delete devices, and send   *)
(* heartbeats and location updates for d1.                                 *)
(***************************************************************************)
RegisterBodies == {<<"n1", "m1", "v1">>, <<"n2", Undef, Undef>>, <<Undef, Undef, Undef>>}

NextRegistry ==
    \/ \E u \in Users, d \in DeviceIds \cup {Undef}, b \in RegisterBodies :
          Register(u, d, b[1], b[2], b[3])
    \/ \E u \in Users : Heartbeat(u, "d1", "inactive")
    \/ \E u \in Users, d \in DeviceIds : DeleteDevice(u, d)
    \/ \E u \in Users, la \in {NoNum, 45} : LocationUpdate(u, "d1", la, 90, 50, FALSE)

SpecRegistry == Init /\ [][NextRegistry]_vars

(***************************************************************************)
(* Batch creation: user 1 registers devices; both users send batches in    *)
(* which the command insert or the log insert of a pass may fail.          *)
(***************************************************************************)
BatchFaults == {"none", "create", "log"}

NextBatch ==
    \/ \E d \in DeviceIds : Register(1, d, "n1", Undef, Undef)
    \/ \E u \in Users, devs \in BatchDevices, t \in BatchTypes :
          \E f \in [1..Len(devs) -> BatchFaults] : BatchCommand(u, devs, t, f)

SpecBatch == Init /\ [][NextBatch]_vars

(***************************************************************************)
(* Presence: d1 was registered by user 1 at second `seen'; the clock runs  *)
(* millisecond by millisecond across the five-minute boundary while the    *)
(* owner reads the device list and the device detail.                      *)
(***************************************************************************)
MaxSeen == 1
PresenceSpan == 2
FiveMinutesMs == 5 * 60 * 1000
PresenceLo == FiveMinutesMs - PresenceSpan
PresenceHi == FiveMinutesMs + MaxSeen * 1000 + PresenceSpan

InitPresence ==
    /\ now = PresenceLo
    /\ \E seen \in 0..MaxSeen :
          devices = {[DeviceRow(1, "d1", "n1", Unknown, Unknown) EXCEPT !.last_seen = seen]}
    /\ commands = <<>>
    /\ locations = <<>>
    /\ device_logs = SetToBag({LogRow("d1", "registration")})
    /\ published = <<>>
    /\ inflight = [s \in Slots |-> Idle]
    /\ last = NoLast
    /\ sockets = [c \in Conns |-> NoSocket]
    /\ users = SeedUsers
    /\ geofences = <<>>

NextPresence ==
    \/ ListDevices(1)
    \/ Read("getDevice", 1, "d1")
    \/ Advance(1, PresenceHi)

SpecPresence == InitPresence /\ [][NextPresence]_vars

(***************************************************************************)
(* Properties.                                                             *)
(***************************************************************************)
CommandWithId(commandId) ==
    {i \in 1..Len(commands) : commands[i].id = commandId}

Owns(userId, deviceId) == ~NotOwned(getDeviceById(deviceId), userId)

\* C1: a command's status changes only from pending to completed or to
\* failed, and a command that has left pending is never written again.
\* (SpecLifecycle; violated: command-response rewrites a terminal command)
C1_StatusOneWay ==
    [][\A i \in 1..Len(commands) :
          /\ commands[i].status # "pending" => commands'[i] = commands[i]
          /\ commands'[i].status # commands[i].status =>
                commands'[i].status \in {"completed", "failed"}]_vars

\* C2: a command-response with a commandId and a status is answered 200
\* whatever state the command is in, and the command then has the status of
\* that call; so of two calls with different statuses the last one wins.
\* (SpecLifecycle)
C2_LastWriteWins ==
    (last.op = "commandResponse" /\ ~FalsyNum(last.commandId) /\ ~Falsy(last.status))
        => /\ last.code = 200
           /\ \A i \in CommandWithId(last.commandId) : commands[i].status = last.status

\* C2 witness: a second command-response, with the other terminal status, was
\* accepted for a command that was already terminal
C2_Witness ==
    /\ last.op = "commandResponse" /\ last.code = 200
    /\ last.prev \in {"completed", "failed"}
    /\ last.status \in {"completed", "failed"} \ {last.prev}
    /\ CommandWithId(last.commandId) # {}

\* C4: a command-response changes a command only if the requester owns the
\* device of the path and the command was issued against that device.
\* (SpecLifecycle; violated: the handler never looks at the owner)
C4_ResolveOnlyByOwner ==
    [][last'.op = "commandResponse" =>
          \A i \in 1..Len(commands) :
              commands'[i] # commands[i] =>
                  /\ Owns(last'.user, commands[i].device_id)
                  /\ Owns(last'.user, last'.deviceId)
                  /\ commands[i].device_id = last'.deviceId]_vars

Increasing(ids) == \A i, j \in 1..Len(ids) : i < j => ids[i] < ids[j]

C7_CommandMonotonicity ==
    /\ Increasing(Ids(commands))
    /\ \A i, j \in 1..Len(commands) : i < j => commands[i].sent_at <= commands[j].sent_at
    /\ \A d \in DeviceIds :
          LET p == getPendingCommands(commands, d)
          IN  /\ Increasing(Ids(p))
              /\ \A i, j \in 1..Len(p) : i < j => p[i].sent_at <= p[j].sent_at
              /\ {p[i] : i \in 1..Len(p)} =
                     {commands[i] : i \in {k \in 1..Len(commands) :
                                              IsPendingFor(commands[k], d)}}
    /\ last.op = "getPending" => Increasing(last.pending)

\* C7 witness: a poll returned two pending commands whose create requests
\* are both still in flight
C7_Witness ==
    /\ last.op = "getPending" /\ Len(last.pending) = 2
    /\ \A s \in {1, 2} : /\ inflight[s].pc \in {"flag", "log", "emit"}
                         /\ inflight[s].deviceId = last.deviceId

\* the answers of the device-scoped routes to one requester for one deviceId
\* (the location update with a well-formed body)
ScopedReplies(userId, deviceId) ==
    <<GetDeviceReply(userId, deviceId),
      HeartbeatReply(userId, deviceId),
      GetLogsReply(userId, deviceId),
      DeleteReply(userId, deviceId),
      LocationUpdateReply(userId, deviceId, 45, 90),
      LatestLocationReply(userId, deviceId),
      LocationHistoryReply(userId, deviceId)>>

\* C3: on every device-scoped route a request for a device owned by another
\* user gets the answer a request for a missing device gets: 404 with the
\* same error.  (SpecRegistry; violated: GET /:deviceId answers 403)
C3_OwnershipIsolation ==
    \A u \in Users, d \in DeviceIds, missing \in DeviceIds :
        (/\ getDeviceById(d) # NoRow
         /\ getDeviceById(d).user_id # u
         /\ getDeviceById(missing) = NoRow)
        => \A k \in 1..Len(ScopedReplies(u, d)) :
              /\ ScopedReplies(u, d)[k].code = 404
              /\ ScopedReplies(u, d)[k].code = ScopedReplies(u, missing)[k].code
              /\ ScopedReplies(u, d)[k].error = ScopedReplies(u, missing)[k].error

RowsOf(deviceId) == {r \in devices : r.device_id = deviceId}

\* C5: there is never more than one devices row per deviceId, and after a
\* register call answered 201 the one row of that deviceId carries the
\* name, model and version of that call ('Unknown' where the call gave
\* none).  (SpecRegistry)
C5_IdempotentRegistration ==
    /\ \A d \in DeviceIds : Cardinality(RowsOf(d)) <= 1
    /\ (last.op = "register" /\ last.code = 201) =>
          /\ Cardinality(RowsOf(last.deviceId)) = 1
          /\ \A r \in RowsOf(last.deviceId) :
                /\ r.device_name = last.name
                /\ r.device_model = (IF last.model = Undef THEN "Unknown" ELSE last.model)
                /\ r.android_version = (IF last.version = Undef THEN "Unknown"
                                        ELSE last.version)

\* C5 witness: a deviceId that was registered under another name has been
\* registered again
C5_Witness ==
    /\ last.op = "register" /\ last.code = 201
    /\ last.prev \notin {Undef, last.name}

\* C6: while a device exists its user_id does not change; registering an
\* existing deviceId as another user leaves the row with its owner.
\* (SpecRegistry; violated: INSERT OR REPLACE writes the caller's user_id)
C6_OwnerImmutable ==
    [][\A r \in devices : \A r2 \in devices' :
          r2.device_id = r.device_id => r2.user_id = r.user_id]_vars

\* C9: a batch answers with one result per requested deviceId, in order,
\* and the commands it stored are pending commands for exactly the devices
\* it reports success:true for.  (SpecBatch; violated: a pass whose log
\* insert fails reports success:false for a command it has stored)
C9_BatchPartialFailure ==
    [][(last'.op = "batch" /\ last'.code = 200) =>
          LET res == last'.results
              new == SubSeq(commands', Len(commands) + 1, Len(commands'))
          IN  /\ Len(res) = Len(last'.devices)
              /\ \A i \in 1..Len(res) : res[i].deviceId = last'.devices[i]
              /\ \A d \in DeviceIds :
                    (\E i \in 1..Len(res) : res[i].deviceId = d /\ res[i].success)
                    <=> (\E k \in 1..Len(new) : IsPendingFor(new[k], d))]_vars

NextOptimistic ==
    \/ \E s \in Slots, r \in {"lock", "locate"} : CreateStart(s, 1, "d1", r, Undef)
    \/ \E s \in Slots : CreateInsert(s)
    \/ \E s \in Slots : CreateFlag(s)
    \/ \E s \in Slots : CreateLog(s)
    \/ \E s \in Slots : CreateRespond(s)
    \/ \E c \in 1..MaxCommands :
          CommandResponse(1, "d1", c, "completed", [response |-> "ok", error |-> Undef],
                          FALSE)

SpecOptimistic == InitConcurrent /\ [][NextOptimistic]_vars

\* C11: when a lock request is answered 201 with its pending command, the
\* device's is_locked is already 1, whether or not any command-response has
\* been processed.  (SpecOptimistic)
C11_OptimisticLock ==
    (last.op = "lock" /\ last.code = 201) =>
        /\ last.status = "pending"
        /\ CommandWithId(last.commandId) # {}
        /\ \A r \in RowsOf(last.deviceId) : r.is_locked = 1

\* C11 witness: a lock was answered 201 and the device is locked while no
\* command-response has been processed: every command is still pending
C11_Witness ==
    /\ last.op = "lock" /\ last.code = 201
    /\ \A i \in 1..Len(commands) : commands[i].status = "pending"
    /\ \E r \in RowsOf(last.deviceId) : r.is_locked = 1

(***************************************************************************)
(* Events: user 1 has registered d1; connections join rooms while locate   *)
(* requests for d1 are answered and the device sends command-responses.    *)
(***************************************************************************)
NextEvents ==
    \/ \E r \in {"locate"} : CreateStart(1, 1, "d1", r, Undef)
    \/ CreateInsert(1)
    \/ CreateLog(1)
    \/ CreateRespond(1)
    \/ \E c \in 1..MaxCommands, st \in {"completed", "failed"} :
          CommandResponse(1, "d1", c, st, [response |-> "ok", error |-> Undef], FALSE)
    \/ \E c \in Conns : JoinDevice(c, "d1")
    \/ \E c \in Conns : JoinDashboard(c, 1)
    \/ \E c \in Conns : JoinUserRoom(c, 1)

SpecEvents == InitConcurrent /\ [][NextEvents]_vars

\* C12: a command-response answered 200 for a command of a device owned by
\* user U emits exactly one command-executed event, with the deviceId, the
\* commandId and the status, to the room join-user-room(U) joins, and every
\* connection in that room receives it.  (SpecEvents; violated: the event
\* goes to the room of join-dashboard)
C12_ResolvePublishesToOwnerRoom ==
    (/\ last.op = "commandResponse" /\ last.code = 200
     /\ CommandWithId(last.commandId) # {}
     /\ getDeviceById(last.deviceId) # NoRow)
    => LET owner == getDeviceById(last.deviceId).user_id
           event == Event(UserRoom(owner), "command-executed", last.deviceId,
                          last.commandId, last.status)
       IN  /\ published = <<event>>
           /\ \A c \in Conns :
                 UserRoom(owner) \in sockets[c].rooms => sockets[c].inbox = <<event>>

\* the number of times e occurs in a sequence of events
Copies(e, events) == Cardinality({i \in 1..Len(events) : events[i] = e})

\* C14: a connection receives an event only in the step that emits it, at
\* most as often as it was emitted, and only if it is in the event's room
\* during that step; an event for a room without members reaches nobody,
\* and a step that joins a room delivers nothing, so a later joiner never
\* gets an earlier event.  (SpecEvents)
C14_AtMostOnceNonDurable ==
    /\ [](\A c \in Conns : \A i \in 1..Len(sockets[c].inbox) :
             LET e == sockets[c].inbox[i]
             IN  /\ e.room \in sockets[c].rooms
                 /\ Copies(e, sockets[c].inbox) <= Copies(e, published))
    /\ [][\A c \in Conns :
              /\ published' # <<>> => sockets'[c].rooms = sockets[c].rooms
              /\ sockets'[c].rooms # sockets[c].rooms => sockets'[c].inbox = <<>>]_vars

\* C14 witness: an event was emitted to a room that one connection is in
\* and the other is not; the first received it once, the second did not
C14_Witness ==
    /\ Len(published) = 1
    /\ \E c1, c2 \in Conns :
          /\ published[1].room \in sockets[c1].rooms
          /\ sockets[c1].inbox = published
          /\ published[1].room \notin sockets[c2].rooms
          /\ sockets[c2].rooms # {}
          /\ sockets[c2].inbox = <<>>

(***************************************************************************)
(* Polling: user 1 has registered d1; locate requests are answered, the    *)
(* device polls its pending commands, sends heartbeats and responses, and  *)
(* may or may not have a connection in its room; the clock advances.       *)
(***************************************************************************)
NextPoll ==
    \/ CreateStart(1, 1, "d1", "locate", Undef)
    \/ CreateInsert(1)
    \/ CreateLog(1)
    \/ CreateRespond(1)
    \/ \E c \in 1..MaxCommands :
          CommandResponse(1, "d1", c, "completed", [response |-> "ok", error |-> Undef],
                          FALSE)
    \/ GetPending(1, "d1")
    \/ Heartbeat(1, "d1", Undef)
    \/ \E c \in Conns : JoinDevice(c, "d1")
    \/ Tick

SpecPoll == InitConcurrent /\ [][NextPoll]_vars

\* the ids of the commands of a device that are pending
PendingIds(deviceId) ==
    {commands[i].id : i \in {k \in 1..Len(commands) : IsPendingFor(commands[k], deviceId)}}

\* C13: the pending list and a heartbeat's pendingCommands hold every
\* pending command of the device, once each and nothing else, whether or
\* not a connection was in the device's room when the command was pushed;
\* and neither a poll nor a heartbeat changes a command, so a command is
\* listed by every poll until a command-response resolves it.  (SpecPoll)
C13_PollFallback ==
    /\ []((last.op \in {"getPending", "heartbeat"} /\ last.code = 200) =>
             /\ {last.pending[i] : i \in 1..Len(last.pending)} = PendingIds(last.deviceId)
             /\ Len(last.pending) = Cardinality(PendingIds(last.deviceId)))
    /\ [][last'.op \in {"getPending", "heartbeat"} => commands' = commands]_vars

\* C13 witness: with no connection in the device's room, so that no push
\* was delivered, a poll returned two pending commands
C13_Witness ==
    /\ last.op = "getPending" /\ Len(last.pending) = 2
    /\ \A c \in Conns : sockets[c].rooms = {}

(***************************************************************************)
(* Emit failures: user 1 has registered d1; command-responses and location *)
(* updates for d1 whose emit call may throw.                               *)
(***************************************************************************)
NextEmitFault ==
    \/ CreateStart(1, 1, "d1", "locate", Undef)
    \/ CreateInsert(1)
    \/ CreateLog(1)
    \/ CreateRespond(1)
    \/ \E c \in 1..MaxCommands, st \in {"completed", "failed"}, x \in BOOLEAN :
          CommandResponse(1, "d1", c, st, [response |-> "ok", error |-> Undef], x)
    \/ \E b \in BatteryLevels, x \in BOOLEAN : LocationUpdate(1, "d1", 45, 90, b, x)
    \/ \E c \in Conns : JoinDashboard(c, 1)

SpecEmitFault == InitConcurrent /\ [][NextEmitFault]_vars

\* C15: a command-response or a location update whose store write took
\* effect is answered with success, not 500, even when its emit call
\* throws.  (SpecEmitFault; violated: the emit call is inside the handler's
\* try block, whose catch answers 500)
C15_PublishFailureSwallowed ==
    [][(/\ last'.op \in {"commandResponse", "locationUpdate"}
        /\ (commands' # commands \/ locations' # locations))
       => last'.code = 200]_vars

(***************************************************************************)
(* Location ingest: user 1 has registered d1 and posts samples for it      *)
(* while the clock advances in five-minute steps, a dashboard connection   *)
(* joins user 1's room and the owner reads the device.                     *)
(***************************************************************************)
SampleLatitudes == {NoNum, 0, 45, 91}
SampleLongitudes == {NoNum, 0, 90, 181}

NextLocation ==
    \/ \E la \in SampleLatitudes, lo \in SampleLongitudes, b \in BatteryLevels :
          LocationUpdate(1, "d1", la, lo, b, FALSE)
    \/ Advance(FiveMinutesMs, FiveMinutesMs * (MaxTicks + 1))
    \/ Read("getDevice", 1, "d1")
    \/ \E c \in Conns : JoinUserRoom(c, 1)

SpecLocation == InitConcurrent /\ [][NextLocation]_vars

\* latitude in [-90, 90] and longitude in [-180, 180], both present
ValidSample(latitude, longitude) ==
    /\ latitude # NoNum /\ longitude # NoNum
    /\ latitude >= -90 /\ latitude <= 90
    /\ longitude >= -180 /\ longitude <= 180

\* C16: a location update by the device's owner is accepted, and one sample
\* stored, exactly when latitude and longitude are present and in range (0
\* included); any other sample is answered 400 and nothing is stored.
\* (SpecLocation; violated: 0 is refused and no range is checked)
C16_SampleValidation ==
    [][(last'.op = "locationUpdate" /\ Owns(last'.user, last'.deviceId)) =>
          IF ValidSample(last'.latitude, last'.longitude)
          THEN last'.code = 200 /\ Len(locations') = Len(locations) + 1
          ELSE last'.code = 400 /\ locations' = locations]_vars

\* C17: a location update answered 200 stores exactly one sample, for that
\* device and with the coordinates sent; leaves the device's last_seen
\* within five minutes of the clock, so that it reads as online; and emits
\* one location-update event for the device to the requester's (the
\* owner's) user room, whose members receive it.  (SpecLocation)
C17_LocationRecord ==
    [][(last'.op = "locationUpdate" /\ last'.code = 200) =>
          LET event == Event(UserRoom(last'.user), "location-update", last'.deviceId,
                             NoNum, Undef)
          IN  /\ Len(locations') = Len(locations) + 1
              /\ SubSeq(locations', 1, Len(locations)) = locations
              /\ locations'[Len(locations')].device_id = last'.deviceId
              /\ locations'[Len(locations')].latitude = last'.latitude
              /\ locations'[Len(locations')].longitude = last'.longitude
              /\ \A r \in devices' : r.device_id = last'.deviceId =>
                    /\ r.user_id = last'.user
                    /\ now' - r.last_seen * 1000 <= FiveMinutesMs
              /\ published' = <<event>>
              /\ \A c \in Conns : UserRoom(last'.user) \in sockets[c].rooms =>
                    sockets'[c].inbox = <<event>>]_vars

\* C17 witness: ten minutes after the device was last seen a sample was
\* accepted, and a connection in the owner's room received the event
C17_Witness ==
    /\ last.op = "locationUpdate" /\ last.code = 200
    /\ now = 2 * FiveMinutesMs
    /\ \E c \in Conns : Len(sockets[c].inbox) = 1
    /\ \E r \in RowsOf("d1") : r.last_seen * 1000 = now

(***************************************************************************)
(* Removal: user 1 has registered d1, issues locate commands and posts a   *)
(* sample for it; either user asks to delete it; the pending list is read. *)
(***************************************************************************)
NextRemoval ==
    \/ CreateStart(1, 1, "d1", "locate", Undef)
    \/ CreateInsert(1)
    \/ CreateLog(1)
    \/ CreateRespond(1)
    \/ LocationUpdate(1, "d1", 45, 90, NoNum, FALSE)
    \/ \E u \in Users : DeleteDevice(u, "d1")
    \/ \E u \in Users : Register(u, "d1", "n1", Undef, Undef)
    \/ GetPending(1, "d1")

SpecRemoval == InitConcurrent /\ [][NextRemoval]_vars

\* C18: a devices row disappears only in a delete request of its owner for
\* that device, and after that step no command, location or log row names
\* the deviceId, so its pending list is empty.  (SpecRemoval; violated: the
\* delete removes the devices row only)
C18_DeleteCascades ==
    [][\A r \in devices :
          (\A r2 \in devices' : r2.device_id # r.device_id) =>
              /\ last'.op = "delete" /\ last'.code = 200
              /\ last'.user = r.user_id /\ last'.deviceId = r.device_id
              /\ \A i \in 1..Len(commands') : commands'[i].device_id # r.device_id
              /\ \A i \in 1..Len(locations') : locations'[i].device_id # r.device_id
              /\ \A l \in BagToSet(device_logs') : l.device_id # r.device_id
              /\ getPendingCommands(commands', r.device_id) = <<>>]_vars

\* C19: a command's status changes only in a command-response step, and no
\* step removes a command: the clock advancing, the pending list, a
\* heartbeat and further creates leave every command as it is.  (SpecPoll)
C19_NoSystemTransition ==
    [][/\ Len(commands') >= Len(commands)
       /\ \A i \in 1..Len(commands) :
             commands'[i] # commands[i] => last'.op = "commandResponse"]_vars

\* C19 witness: after the clock advanced, a further create and a poll, a
\* heartbeat still reports the first command as pending
C19_Witness ==
    /\ last.op = "heartbeat" /\ last.code = 200
    /\ now = MaxClock
    /\ Len(commands) = 2
    /\ Len(last.pending) = 2 /\ last.pending[1] = 1
    /\ commands[1].sent_at < commands[2].sent_at

(***************************************************************************)
(* routes/auth.js, authenticateApiKey: the middleware every device and     *)
(* location route runs behind (router.use(authenticateApiKey)).            *)
(***************************************************************************)
\* the x-api-key header of a request: missing, unknown, or a user's key
ApiKeys == {Undef, "k0", "k1", "k2"}

\* for comparison: a lookup that yields a row for every key
getUserByApiKey_AnyKey(apiKey) ==
    IF \E u \in users : u.api_key = apiKey
    THEN CHOOSE u \in users : u.api_key = apiKey
    ELSE [NoUser EXCEPT !.api_key = apiKey]

\* SELECT * FROM users WHERE api_key = ?  (one row or undefined)
getUserByApiKey(apiKey) ==
    IF \E u \in users : u.api_key = apiKey
    THEN CHOOSE u \in users : u.api_key = apiKey
    ELSE NoUser

\* the middleware calls next(): the key is present and maps to a user
Authenticated(apiKey) == ~Falsy(apiKey) /\ getUserByApiKey(apiKey) # NoUser

\* req.user.id that the handler then runs with
UserOf(apiKey) == getUserByApiKey(apiKey).id

\* the middleware answers 401 and the route's handler does not run
Unauthorized(apiKey, deviceId) ==
    /\ ~Authenticated(apiKey)
    /\ last' = [Reply("unauthorized", 0, deviceId, 401,
                      IF Falsy(apiKey) THEN "API key required" ELSE "Invalid API key")
                    EXCEPT !.token = apiKey]
    /\ published' = <<>>
    /\ UNCHANGED <<store, now, inflight>>
    /\ Deliver
    /\ UNCHANGED <<users, geofences>>

(***************************************************************************)
(* Authentication: requests to the device and location routes for d1 with  *)
(* any x-api-key header, and a dashboard connection.                       *)
(***************************************************************************)
NextAuth ==
    \/ \E k \in ApiKeys : Unauthorized(k, "d1")
    \/ \E k \in ApiKeys : Authenticated(k) /\ Register(UserOf(k), "d1", "n1", Undef, Undef)
    \/ \E k \in ApiKeys : Authenticated(k) /\ Heartbeat(UserOf(k), "d1", Undef)
    \/ \E k \in ApiKeys : Authenticated(k) /\ DeleteDevice(UserOf(k), "d1")
    \/ \E k \in ApiKeys, r \in ReadRoutes : Authenticated(k) /\ Read(r, UserOf(k), "d1")
    \/ \E k \in ApiKeys : Authenticated(k) /\ ListDevices(UserOf(k))
    \/ \E k \in ApiKeys, x \in BOOLEAN :
          Authenticated(k) /\ LocationUpdate(UserOf(k), "d1", 45, 90, 50, x)
    \/ \E c \in Conns, u \in Users : JoinUserRoom(c, u)

SpecAuth == Init /\ [][NextAuth]_vars

\* C20: a request to a device or location route without an API key, or with
\* a key of no user, is answered 401, writes nothing to the store and emits
\* no event; a step that writes to the store or emits an event belongs to a
\* request of a user of the users table.  (SpecAuth)
C20_Unauthenticated ==
    /\ [](last.op = "unauthorized" => (last.code = 401 /\ published = <<>>))
    /\ [][\/ /\ last'.op = "unauthorized"
              /\ store' = store
           \/ /\ last'.op # "unauthorized"
              /\ (store' # store \/ published' # <<>>) =>
                    (\E u \in users : u.id = last'.user)]_vars

\* C20 witness: with a device registered and a connection in its owner's
\* room, a request carrying a key of no user was answered 401
C20_Witness ==
    /\ last.op = "unauthorized" /\ last.code = 401 /\ last.token = "k0"
    /\ devices # {} /\ locations # <<>>
    /\ \E c \in Conns : sockets[c].rooms # {}

(***************************************************************************)
(* routes/auth.js, POST /api/auth/register.  The handler reads the users   *)
(* table, then awaits bcrypt.hash, then inserts: other requests run        *)
(* between the read and the insert.                                        *)
(***************************************************************************)
\* SELECT * FROM users WHERE username = ?  (one row or undefined)
getUserByUsername(username) ==
    IF \E u \in users : u.username = username
    THEN CHOOSE u \in users : u.username = username
    ELSE NoUser

\* the INSERT fails on a UNIQUE column: username, email or api_key
UniqueViolation(rows, username, email, apiKey) ==
    \E u \in rows : u.username = username \/ u.email = email \/ u.api_key = apiKey

\* the number n of the key "kn"
KeyIndex(apiKey) == CHOOSE n \in 0..MaxKeys : apiKey = "k" \o ToString(n)

\* the highest key number in use; keys are issued in increasing order, so
\* no key up to it is ever issued again
LastKey(rows) ==
    CHOOSE n \in 0..MaxKeys :
        /\ \A u \in rows : KeyIndex(u.api_key) <= n
        /\ n = 0 \/ \E u \in rows : KeyIndex(u.api_key) = n

\* uuidv4(): a key that was never issued before
NewApiKey(rows) == "k" \o ToString(LastKey(rows) + 1)

\* INSERT INTO users (username, email, password_hash, api_key); no statement
\* deletes a user, so AUTOINCREMENT gives the number of rows plus one
createUser(rows, username, email, passwordHash, apiKey) ==
    rows \cup {[id |-> Cardinality(rows) + 1, username |-> username,
                email |-> email, api_key |-> apiKey, password_hash |-> passwordHash]}

\* a password is the sequence of its characters; <<>> is the empty or
\* missing one
Passwords == {<<>>, <<"p", "w">>, <<"s", "e", "c", "r", "e", "t">>}
Usernames == {Undef, "u1", "u3"}
Emails == {Undef, "e3", "e4"}

\* the handler up to the await of bcrypt.hash: validation and the check of
\* the username
AuthRegisterStart(s, username, email, password) ==
    LET req == [Reply("authRegister", 0, Undef, 0, "") EXCEPT !.name = username]
    IN  /\ IF Falsy(username) \/ Falsy(email) \/ password = <<>>
           THEN /\ last' = [req EXCEPT !.code = 400,
                                 !.error = "Username, email, and password are required"]
                /\ UNCHANGED inflight
           ELSE IF Len(password) < 6
           THEN /\ last' = [req EXCEPT !.code = 400,
                                 !.error = "Password must be at least 6 characters long"]
                /\ UNCHANGED inflight
           ELSE IF getUserByUsername(username) # NoUser
           THEN /\ last' = [req EXCEPT !.code = 409, !.error = "Username already exists"]
                /\ UNCHANGED inflight
           ELSE /\ inflight[s] = Idle
                /\ \A t \in Slots : t < s => inflight[t] # Idle
                /\ last' = [NoLast EXCEPT !.op = "authRegisterStep"]
                /\ inflight' = [inflight EXCEPT ![s] =
                       [Idle EXCEPT !.pc = "createUser", !.route = "authRegister",
                                    !.username = username, !.email = email,
                                    !.password = password]]
        /\ published' = <<>>
        /\ UNCHANGED <<store, now, users, geofences>>
        /\ Deliver

\* await db.createUser(...): 201, or the INSERT is rejected and the catch
\* answers 500
AuthRegisterCreate(s) ==
    LET req == [Reply("authRegister", 0, Undef, 0, "") EXCEPT
                    !.name = inflight[s].username]
        apiKey == NewApiKey(users)
    IN  /\ inflight[s].pc = "createUser"
        /\ IF UniqueViolation(users, inflight[s].username, inflight[s].email, apiKey)
           THEN /\ last' = [req EXCEPT !.code = 500, !.error = "Registration failed"]
                /\ UNCHANGED users
           ELSE /\ users' = createUser(users, inflight[s].username, inflight[s].email,
                                        bcryptHash(inflight[s].password), apiKey)
                /\ last' = [req EXCEPT !.code = 201, !.user = Cardinality(users) + 1,
                                       !.token = apiKey]
        /\ inflight' = [inflight EXCEPT ![s] = Idle]
        /\ published' = <<>>
        /\ UNCHANGED <<store, now, geofences>>
        /\ Deliver

(***************************************************************************)
(* Accounts: registrations of users run concurrently, and the registered   *)
(* users register a device with their key.                                 *)
(***************************************************************************)
NextAccounts ==
    \/ \E s \in Slots, n \in Usernames, e \in Emails, p \in Passwords :
          AuthRegisterStart(s, n, e, p)
    \/ \E s \in Slots : AuthRegisterCreate(s)
    \/ \E k \in {"k0", "k3"} : Unauthorized(k, "d1")
    \/ \E k \in {"k0", "k3"} : Authenticated(k) /\ Register(UserOf(k), "d1", "n1", Undef, Undef)

SpecAccounts == Init /\ [][NextAccounts]_vars

\* C21: a registration for a username that a users row already has is
\* answered 409 (unless its body is rejected with 400) and adds no row, also
\* when the row was written while the request was waiting; no two rows share
\* a username.  (SpecAccounts; violated: the request that loses the race is
\* answered 500 by the catch around the rejected INSERT)
C21_DuplicateUsername ==
    /\ [](\A u1, u2 \in users : u1.username = u2.username => u1 = u2)
    /\ [][(/\ last'.op = "authRegister"
           /\ last'.code # 400
           /\ \E u \in users : u.username = last'.name)
          => (last'.code = 409 /\ users' = users)]_vars

(***************************************************************************)
(* routes/location.js, calculateDistance.  JavaScript numbers are modelled *)
(* in fixed point: an angle is a whole number of degrees (the factor       *)
(* Math.PI / 180 is applied inside Sin and Cos), a sine or cosine is       *)
(* rounded to four decimals and held times Scale, and every operation      *)
(* rounds its result as a floating-point one does.  NaN is the value       *)
(* Math.sqrt gives for a negative argument; it propagates through every    *)
(* operation.                                                              *)
(***************************************************************************)
Scale == 10000
NaN == -1000000

\* sin of 0, 5, ..., 90 degrees, times Scale, rounded to nearest
SinTable ==
    <<0, 872, 1736, 2588, 3420, 4226, 5000, 5736, 6428, 7071,
      7660, 8192, 8660, 9063, 9397, 9659, 9848, 9962, 10000>>

Abs(x) == IF x < 0 THEN -x ELSE x

\* Math.sin(deg * Math.PI / 180) * Scale, deg a multiple of 5 in -180..180
Sin(deg) ==
    LET m == Abs(deg)
        r == IF m > 90 THEN 180 - m ELSE m
        v == SinTable[(r \div 5) + 1]
    IN  IF deg < 0 THEN -v ELSE v

\* Math.cos(deg * Math.PI / 180) * Scale
Cos(deg) == Sin(90 - Abs(deg))

\* x * y of two numbers held times Scale, rounded to nearest; the rounding
\* treats a number and its negative alike, as floating point does
Mul(x, y) ==
    LET p == x * y
    IN  IF p < 0 THEN -((-p + Scale \div 2) \div Scale) ELSE (p + Scale \div 2) \div Scale

\* the largest r in lo..hi-1 with r * r <= n, by bisection
RECURSIVE Root(_, _, _)
Root(n, lo, hi) ==
    IF hi - lo <= 1 THEN lo
    ELSE LET mid == (lo + hi) \div 2
         IN  IF mid * mid <= n THEN Root(n, mid, hi) ELSE Root(n, lo, mid)

\* Math.sqrt(x), rounded down; NaN below zero
Sqrt(x) == IF x < 0 THEN NaN ELSE Root(x * Scale, 0, 2 * Scale)

\* Math.atan2(y, x) in degrees for y, x >= 0: the multiple of 5 in 0..90
\* nearest to the angle of the point (x, y); NaN if an argument is NaN
Atan2(y, x) ==
    IF y = NaN \/ x = NaN THEN NaN
    ELSE LET err(t) == Abs(y * Cos(t) - x * Sin(t))
             grid == {5 * k : k \in 0..18}
         IN  CHOOSE t \in grid :
                \A t2 \in grid : err(t) < err(t2) \/ (err(t) = err(t2) /\ t <= t2)

\* Earth's radius in kilometers
R == 6371

\* Math.PI, times Scale
PI == 31416

\* calculateDistance(lat1, lon1, lat2, lon2): whole kilometers; the angles
\* dLat, dLon and c are in degrees, c is turned into radians in the last line
calculateDistance(lat1, lon1, lat2, lon2) ==
    LET dLat == lat2 - lat1
        dLon == lon2 - lon1
        a == Mul(Sin(dLat \div 2), Sin(dLat \div 2)) +
             Mul(Mul(Mul(Cos(lat1), Cos(lat2)), Sin(dLon \div 2)), Sin(dLon \div 2))
        c == 2 * Atan2(Sqrt(a), Sqrt(Scale - a))
    IN  IF c = 2 * NaN THEN NaN ELSE (R * ((c * PI) \div 180)) \div Scale

(***************************************************************************)
(* routes/location.js, GET /api/location/:deviceId/history.  The query     *)
(* parameters are strings; a missing one is Undef.  Timestamps are ISO     *)
(* strings of one format, which SQLite compares as text in time order;     *)
(* they are held as milliseconds.                                          *)
(***************************************************************************)
\* parseInt / parseFloat of the query strings used here
ParseNumber(str) ==
    CASE str = "-1" -> -1
      [] str = "0" -> 0
      [] str = "1" -> 1
      [] str = "2" -> 2
      [] str = "10" -> 10
      [] str = "1000" -> 1000
      [] str = "3000" -> 3000
      [] OTHER -> NaN

\* a row and the rows of a sequence that sort before it under
\* ORDER BY timestamp DESC; rows of equal timestamp keep their scan order
InsertByTimestampDesc(sorted, row) ==
    LET keep == {i \in 1..Len(sorted) : sorted[i].timestamp >= row.timestamp}
        k == Cardinality(keep)
    IN  SubSeq(sorted, 1, k) \o <<row>> \o SubSeq(sorted, k + 1, Len(sorted))

RECURSIVE OrderByTimestampDesc(_)
OrderByTimestampDesc(rows) ==
    IF rows = <<>> THEN <<>>
    ELSE InsertByTimestampDesc(OrderByTimestampDesc(SubSeq(rows, 1, Len(rows) - 1)),
                               rows[Len(rows)])

\* LIMIT n: the first n rows; a negative n sets no upper bound
Limit(rows, n) ==
    IF n < 0 \/ n >= Len(rows) THEN rows ELSE SubSeq(rows, 1, n)

\* SELECT * FROM locations WHERE device_id = ? [AND timestamp >= ?]
\* [AND timestamp <= ?] [AND source = ?] [AND (accuracy IS NULL OR accuracy <= ?)]
\* ORDER BY timestamp DESC LIMIT ?      (limit defaults to 100, more rows
\* than the table of the model ever holds)
HistoryRows(deviceId, query) ==
    LET Match(row) ==
            /\ row.device_id = deviceId
            /\ Falsy(query.startDate) \/ row.timestamp >= ParseNumber(query.startDate)
            /\ Falsy(query.endDate) \/ row.timestamp <= ParseNumber(query.endDate)
            /\ OrElse(query.source, "all") = "all" \/ row.source = query.source
            /\ Falsy(query.minAccuracy)
                  \/ row.accuracy = NoNum
                  \/ row.accuracy <= ParseNumber(query.minAccuracy)
    IN  Limit(OrderByTimestampDesc(SelectSeq(locations, Match)),
              ParseNumber(OrElse(query.limit, "1000")))

\* JavaScript x + y
Plus(x, y) == IF x = NaN \/ y = NaN THEN NaN ELSE x + y

\* the loop over adjacent rows: totalDistance += calculateDistance(...)
RECURSIVE TotalDistance(_, _)
TotalDistance(rows, i) ==
    IF i >= Len(rows) THEN 0
    ELSE Plus(calculateDistance(rows[i].latitude, rows[i].longitude,
                                rows[i + 1].latitude, rows[i + 1].longitude),
              TotalDistance(rows, i + 1))

\* GET /api/location/:deviceId/history?startDate&endDate&limit&source&minAccuracy
History(userId, deviceId, query) ==
    LET req == [Reply("history", userId, deviceId, 0, "") EXCEPT !.query = query]
        rows == HistoryRows(deviceId, query)
    IN  /\ last' = IF NotOwned(getDeviceById(deviceId), userId)
                   THEN [req EXCEPT !.code = 404, !.error = "Device not found"]
                   ELSE IF ParseNumber(OrElse(query.limit, "1000")) = NaN
                   THEN [req EXCEPT !.code = 500,
                                    !.error = "Failed to get location history"]
                   ELSE [req EXCEPT !.code = 200, !.results = rows,
                                    !.totalPoints = Len(rows),
                                    !.totalDistanceKm = TotalDistance(rows, 1)]
        /\ published' = <<>>
        /\ UNCHANGED <<store, now, inflight, users, geofences>>
        /\ Deliver

(***************************************************************************)
(* Location history: d1 of user 1 and d2 of user 2 have sent samples (by   *)
(* update or batch-update, which stores the client's timestamp, accuracy   *)
(* and source); the owner of d1 posts one more and both users query.       *)
(***************************************************************************)
HistorySamples ==
    <<[device_id |-> "d1", latitude |-> 35, longitude |-> 10,
       accuracy |-> 5, source |-> "gps", timestamp |-> 1000],
      [device_id |-> "d1", latitude |-> -35, longitude |-> -170,
       accuracy |-> NoNum, source |-> "network", timestamp |-> 2000],
      [device_id |-> "d2", latitude |-> 45, longitude |-> 100,
       accuracy |-> 5, source |-> "gps", timestamp |-> 3000],
      [device_id |-> "d1", latitude |-> 45, longitude |-> 100,
       accuracy |-> 50, source |-> "gps", timestamp |-> 4000]>>

\* the table after the samples S were stored, in the order of the list
Stored(S) ==
    LET In(i) == i \in S
        ix == SelectSeq([i \in 1..Len(HistorySamples) |-> i], In)
    IN  [i \in 1..Len(ix) |->
            [id |-> i,
             device_id |-> HistorySamples[ix[i]].device_id,
             latitude |-> HistorySamples[ix[i]].latitude,
             longitude |-> HistorySamples[ix[i]].longitude,
             accuracy |-> HistorySamples[ix[i]].accuracy,
             source |-> HistorySamples[ix[i]].source,
             timestamp |-> HistorySamples[ix[i]].timestamp]]

InitHistory ==
    /\ now = 5 * TickMs
    /\ devices = {DeviceRow(1, "d1", "n1", Unknown, Unknown),
                  DeviceRow(2, "d2", "n2", Unknown, Unknown)}
    /\ commands = <<>>
    /\ locations \in {Stored(S) : S \in SUBSET (1..Len(HistorySamples))}
    /\ device_logs = SetToBag({LogRow("d1", "registration")})
    /\ published = <<>>
    /\ inflight = [s \in Slots |-> Idle]
    /\ last = NoLast
    /\ sockets = [c \in Conns |-> NoSocket]
    /\ users = SeedUsers
    /\ geofences = <<>>

\* a request without query parameters
NoQuery ==
    [startDate |-> Undef, endDate |-> Undef, limit |-> Undef, source |-> Undef,
     minAccuracy |-> Undef]

Queries ==
    [startDate : {Undef, "1000"}, endDate : {Undef, "3000"},
     limit : {Undef, "-1", "1", "many"}, source : {Undef, "all", "gps"},
     minAccuracy : {Undef, "10"}]

NextHistory ==
    \/ \E q \in Queries : History(1, "d1", q)
    \/ History(2, "d1", NoQuery)
    \/ LocationUpdate(1, "d1", 45, 100, NoNum, FALSE)

SpecHistory == InitHistory /\ [][NextHistory]_vars

\* two JavaScript numbers are equal within a tolerance; the fixed-point
\* results leave no rounding difference to tolerate, and a comparison with
\* NaN is false
EqualWithin(x, y) == x # NaN /\ y # NaN /\ x = y

\* C22: for the positions A, B of any two samples a history answer returns,
\* calculateDistance(A, B) equals calculateDistance(B, A) within the
\* tolerance and calculateDistance(A, A) is 0.  (SpecHistory; violated: for
\* two opposite points of the globe rounding puts a above 1, Math.sqrt(1-a)
\* is NaN and so is the distance)
C22_HaversineSymmetry ==
    last.op = "history" =>
        \A i, j \in 1..Len(last.results) :
            LET A == last.results[i]
                B == last.results[j]
            IN  /\ EqualWithin(calculateDistance(A.latitude, A.longitude,
                                                 B.latitude, B.longitude),
                               calculateDistance(B.latitude, B.longitude,
                                                 A.latitude, A.longitude))
                /\ calculateDistance(A.latitude, A.longitude,
                                     A.latitude, A.longitude) = 0

\* the remote-command events a connection has just received
Pushed(c) ==
    {sockets[c].inbox[k] : k \in {k \in 1..Len(sockets[c].inbox) :
                                     sockets[c].inbox[k].name = "remote-command"}}

\* C23: when a connection in the device's room receives a remote-command
\* event, the command it names is already a row of the commands table, for
\* that device and of that type, so a command-response or a pending list
\* sent in reaction finds it.  (SpecPoll)
C23_StoredBeforePush ==
    \A c \in Conns : \A e \in Pushed(c) :
        \E i \in 1..Len(commands) :
            /\ commands[i].id = e.commandId
            /\ commands[i].device_id = e.deviceId
            /\ commands[i].command_type = e.status

\* C23 witness: the device's connection has received the push for a command
\* that is stored and pending
C23_Witness ==
    \E c \in Conns : \E e \in Pushed(c) :
        /\ last.code = 201 /\ last.commandId = e.commandId
        /\ e.commandId \in {commands[i].id : i \in 1..Len(commands)}
        /\ <<e.commandId>> = Ids(getPendingCommands(commands, e.deviceId))

\* C24: when a command-response reports a pending lock command of a device
\* as failed and no lock command of the device has completed, the device's
\* cached is_locked flag goes back to 0: the flag follows the device's
\* acknowledgement.  (SpecLifecycle; violated: the command-response handler
\* writes the command and a log row only, never a flag)
C24_ResponseReconcilesFlag ==
    [][\A i \in 1..Len(commands) :
          (/\ commands[i].command_type = "LOCK_DEVICE"
           /\ commands[i].status = "pending"
           /\ commands'[i].status = "failed"
           /\ \A j \in 1..Len(commands') :
                 (/\ commands'[j].device_id = commands[i].device_id
                  /\ commands'[j].command_type = "LOCK_DEVICE")
                 => commands'[j].status # "completed")
          => \A r \in devices' :
                r.device_id = commands[i].device_id => r.is_locked = 0]_vars

(***************************************************************************)
(* Heartbeat and presence: d1 of user 1 sends its heartbeats half a second *)
(* after a whole second of the clock; commands for d1 are created, the     *)
(* clock moves in quarter seconds and by a quarter second less than five   *)
(* minutes, and the owner reads the device.                                *)
(***************************************************************************)
QuarterSecond == TickMs \div 4
HeartbeatAt == TickMs \div 2

NextHeartbeat ==
    \/ now = HeartbeatAt /\ Heartbeat(1, "d1", Undef)
    \/ CreateStart(1, 1, "d1", "locate", Undef)
    \/ CreateInsert(1)
    \/ CreateLog(1)
    \/ CreateRespond(1)
    \/ Read("getDevice", 1, "d1")
    \/ ListDevices(1)
    \/ Advance(QuarterSecond, TickMs)
    \/ Advance(FiveMinutesMs - QuarterSecond, FiveMinutesMs + TickMs)

SpecHeartbeat == InitConcurrent /\ [][NextHeartbeat]_vars

\* a heartbeat of the device has been accepted
HeartbeatSeen(deviceId) == CopiesIn(LogRow(deviceId, "heartbeat"), device_logs) > 0

\* C25: an accepted heartbeat answers with the device's pending list, and
\* every read of the device made at most five minutes after the heartbeat
\* reports it online.  (SpecHeartbeat; violated: last_seen holds the
\* heartbeat time cut to the whole second, so the five minutes end up to a
\* second early)
C25_HeartbeatPresence ==
    /\ (last.op = "heartbeat" /\ last.code = 200) =>
          last.pending = Ids(getPendingCommands(commands, last.deviceId))
    /\ (/\ last.op \in {"getDevice", "listDevices"} /\ last.code = 200
        /\ HeartbeatSeen("d1")
        /\ now - HeartbeatAt <= FiveMinutesMs) =>
          \A i \in 1..Len(last.results) :
              last.results[i].device_id = "d1" => last.results[i].isOnline

(***************************************************************************)
(* server.js, setupWebSocket: the messages a connection sends.  A          *)
(* connection carries no credential and no handler looks up the device; c  *)
(* is the sending connection, data the message's payload.                  *)
(***************************************************************************)
\* socket.on('location-update', data): db.saveLocation(data), then
\* 'location-updated' to the dashboard room of data.userId.  An INSERT
\* without device_id, latitude or longitude breaks NOT NULL: the catch logs
\* the error and nothing is stored or emitted.
SocketLocationUpdate(c, deviceId, userId, latitude, longitude) ==
    /\ last' = [NoLast EXCEPT !.op = "socketLocationUpdate", !.deviceId = deviceId,
                              !.latitude = latitude, !.longitude = longitude]
    /\ IF Falsy(deviceId) \/ latitude = NoNum \/ longitude = NoNum
       THEN /\ published' = <<>>
            /\ UNCHANGED locations
       ELSE /\ Len(locations) < MaxLocations
            /\ locations' = saveLocation(locations, deviceId, latitude, longitude)
            /\ published' = <<Event(DashboardRoom(userId), "location-updated",
                                    deviceId, NoNum, Undef)>>
    /\ UNCHANGED <<devices, commands, device_logs, now, inflight, users, geofences>>
    /\ Deliver

\* socket.on('device-status', data): db.updateDeviceStatus(data.deviceId,
\* data.status), then 'device-status-updated' to the dashboard room of
\* data.userId
SocketDeviceStatus(c, deviceId, userId, status) ==
    /\ last' = [NoLast EXCEPT !.op = "socketDeviceStatus", !.deviceId = deviceId,
                              !.status = status]
    /\ devices' = updateDeviceStatus(devices, deviceId, status)
    /\ published' = <<Event(DashboardRoom(userId), "device-status-updated",
                            deviceId, NoNum, status)>>
    /\ UNCHANGED <<commands, locations, device_logs, now, inflight, users, geofences>>
    /\ Deliver

\* for comparison: a connection that keeps its rooms when it closes
Disconnect_KeepsRooms(c) ==
    /\ sockets' = [x \in Conns |-> [sockets[x] EXCEPT !.inbox = <<>>]]
    /\ last' = [NoLast EXCEPT !.op = "disconnect", !.deviceId = c]
    /\ published' = <<>>
    /\ UNCHANGED <<store, now, inflight, users, geofences>>

\* socket.on('disconnect'): socket.io takes the closed connection out of
\* every room; the next connection (under the same name c) starts in none
Disconnect(c) ==
    /\ sockets' = [x \in Conns |->
                      IF x = c THEN NoSocket ELSE [sockets[x] EXCEPT !.inbox = <<>>]]
    /\ last' = [NoLast EXCEPT !.op = "disconnect", !.deviceId = c]
    /\ published' = <<>>
    /\ UNCHANGED <<store, now, inflight, users, geofences>>

(***************************************************************************)
(* The push channel: connections join rooms, send location-update and      *)
(* device-status messages for the devices d1 (of user 1) and d2 (of        *)
(* nobody) and disconnect, while the owner of d1 uses the HTTP routes.     *)
(***************************************************************************)
NextSocket ==
    \/ \E c \in Conns, d \in DeviceIds, u \in Users, la \in {NoNum, 45} :
          SocketLocationUpdate(c, d, u, la, 90)
    \/ \E c \in Conns, d \in DeviceIds, u \in Users : SocketDeviceStatus(c, d, u, "inactive")
    \/ \E c \in Conns : JoinDashboard(c, 1)
    \/ \E c \in Conns : JoinUserRoom(c, 1)
    \/ \E c \in Conns : Disconnect(c)
    \/ LocationUpdate(1, "d1", 45, 90, NoNum, FALSE)
    \/ \E st \in HeartbeatStatuses : Heartbeat(1, "d1", st)

SpecSocket == InitConcurrent /\ [][NextSocket]_vars

\* C26: a location row is added, or a device's status changes, only in a
\* step of a request authenticated as the owner of the device.
\* (SpecSocket; violated: the socket handlers store what any connection
\* sends, for any device)
C26_SocketOwnership ==
    [][/\ Len(locations') > Len(locations) =>
             /\ last'.op = "locationUpdate"
             /\ Owns(last'.user, locations'[Len(locations')].device_id)
       /\ \A r \in devices : \A r2 \in devices' :
             (r2.device_id = r.device_id /\ r2.status # r.status) =>
                 (last'.op = "heartbeat" /\ last'.user = r.user_id)]_vars

\* C28: a connection enters a room only in a join step and leaves its rooms
\* only when it disconnects, which leaves it in no room; a connection
\* receives only events sent to a room it is in, so one that is in no room
\* (a closed one, or a new one) receives nothing.  (SpecSocket)
C28_ConnectionScopedRooms ==
    /\ [](\A c \in Conns : \A k \in 1..Len(sockets[c].inbox) :
             sockets[c].inbox[k].room \in sockets[c].rooms)
    /\ [][\A c \in Conns :
             /\ ~(sockets'[c].rooms \subseteq sockets[c].rooms) => last'.op = "join"
             /\ ~(sockets[c].rooms \subseteq sockets'[c].rooms) =>
                   (last'.op = "disconnect" /\ last'.deviceId = c)
             /\ (last'.op = "disconnect" /\ last'.deviceId = c) =>
                   sockets'[c] = NoSocket]_vars

\* C28 witness: an event is published to the room of user 1 while one
\* connection is in no room and the other is in that room: only the member
\* receives it
C28_Witness ==
    /\ last.op = "locationUpdate" /\ published # <<>>
    /\ sockets["c1"] = NoSocket
    /\ sockets["c2"].rooms = {UserRoom(1), DashboardRoom(1)}
    /\ sockets["c2"].inbox = published

(***************************************************************************)
(* Flag races: lock and unlock requests of the owner for d1 are in flight  *)
(* at once while the device sends heartbeats.                              *)
(***************************************************************************)
NextFlagRace ==
    \/ \E s \in Slots, r \in {"lock", "unlock"} : CreateStart(s, 1, "d1", r, Undef)
    \/ \E s \in Slots : CreateInsert(s)
    \/ \E s \in Slots : CreateFlag(s)
    \/ \E s \in Slots : CreateLog(s)
    \/ \E s \in Slots : CreateRespond(s)
    \/ \E st \in HeartbeatStatuses : Heartbeat(1, "d1", st)

SpecFlagRace == InitConcurrent /\ [][NextFlagRace]_vars

\* the flag write of the request in slot s takes place in this step
FlagWritten(s) == inflight[s].pc = "flag" /\ inflight'[s].pc = "log"

\* C27: with lock and unlock requests and heartbeats of one device
\* interleaved in any way, no request fails, the flag write of a request
\* leaves is_locked at the value of that request, a heartbeat leaves
\* is_locked as it is, and nothing else changes it: is_locked is the value
\* of the write that reached the store last.  (SpecFlagRace)
C27_FlagLastWriteWins ==
    /\ [](last.op \in {"lock", "unlock"} => last.code = 201)
    /\ [](last.op = "heartbeat" => last.code = 200)
    /\ [][\A r \in devices : \A r2 \in devices' :
             r2.device_id = r.device_id =>
                 /\ \A s \in Slots :
                       FlagWritten(s) =>
                           r2.is_locked = IF inflight[s].route = "lock" THEN 1 ELSE 0
                 /\ (\A s \in Slots : ~FlagWritten(s)) => r2.is_locked = r.is_locked]_vars

\* C27 witness: a heartbeat was stored between the flag write of a lock
\* request and that request's answer, and the device is locked and inactive
C27_Witness ==
    /\ last.op = "heartbeat" /\ last.code = 200
    /\ \E s \in Slots : inflight[s].route = "lock" /\ inflight[s].pc = "log"
    /\ \E s \in Slots : inflight[s].route = "unlock" /\ inflight[s].pc = "flag"
    /\ \A r \in RowsOf("d1") : r.is_locked = 1 /\ r.status = "inactive"

(***************************************************************************)
(* Command responses with any status: locate commands for d1 are created   *)
(* and the device answers them with terminal and other status values.      *)
(***************************************************************************)
ReportedStatuses == {"completed", "failed", "pending", "running"}

NextResolve ==
    \/ CreateStart(1, 1, "d1", "locate", Undef)
    \/ CreateInsert(1)
    \/ CreateLog(1)
    \/ CreateRespond(1)
    \/ \E c \in 1..MaxCommands, st \in ReportedStatuses :
          CommandResponse(1, "d1", c, st, [response |-> "ok", error |-> Undef], FALSE)

SpecResolve == InitConcurrent /\ [][NextResolve]_vars

\* C29: every stored command status is pending, completed or failed, and a
\* command-response whose status is neither completed nor failed leaves the
\* commands as they are.  (SpecResolve; violated: the handler stores any
\* non-empty status it is sent)
C29_StatusDomain ==
    /\ [](\A i \in 1..Len(commands) :
             commands[i].status \in {"pending", "completed", "failed"})
    /\ [][(last'.op = "commandResponse" /\ last'.status \notin {"completed", "failed"})
          => commands' = commands]_vars

\* a stored sample passes the filters of a history query: the time range,
\* the source, and the accuracy threshold (a sample without an accuracy has
\* no accuracy above the threshold)
PassesFilters(row, query) ==
    /\ Falsy(query.startDate) \/ row.timestamp >= ParseNumber(query.startDate)
    /\ Falsy(query.endDate) \/ row.timestamp <= ParseNumber(query.endDate)
    /\ query.source \in {Undef, "all"} \/ row.source = query.source
    /\ Falsy(query.minAccuracy)
          \/ row.accuracy = NoNum
          \/ row.accuracy <= ParseNumber(query.minAccuracy)

\* C30: a history answer for device d holds only stored samples of d that
\* pass the query's filters, at most `limit` of them when a limit is given,
\* in descending timestamp order; totalPoints is the number of samples
\* returned, and the total distance is 0 when fewer than two are returned.
\* (SpecHistory; violated: a negative limit is handed to SQLite, for which
\* it means no limit)
C30_HistoryQuery ==
    (last.op = "history" /\ last.code = 200) =>
        /\ \A i \in 1..Len(last.results) :
              /\ \E k \in 1..Len(locations) : locations[k] = last.results[i]
              /\ last.results[i].device_id = last.deviceId
              /\ PassesFilters(last.results[i], last.query)
        /\ ~Falsy(last.query.limit) =>
              Len(last.results) <= ParseNumber(last.query.limit)
        /\ \A i, j \in 1..Len(last.results) :
              i < j => last.results[i].timestamp >= last.results[j].timestamp
        /\ last.totalPoints = Len(last.results)
        /\ Len(last.results) < 2 => last.totalDistanceKm = 0

(***************************************************************************)
(* Battery level: user 1's d1 sends heartbeats and location updates with   *)
(* and without a battery level, in and out of the range 0..100.            *)
(***************************************************************************)
ReportedLevels == {NoNum, -5, 0, 50, 100, 150}

NextBattery ==
    \/ \E la \in {NoNum, 45}, b \in ReportedLevels :
          LocationUpdate(1, "d1", la, 90, b, FALSE)
    \/ \E st \in HeartbeatStatuses : Heartbeat(1, "d1", st)
    \/ Read("getDevice", 1, "d1")
    \/ Advance(FiveMinutesMs, FiveMinutesMs * (MaxTicks + 1))

SpecBattery == InitConcurrent /\ [][NextBattery]_vars

\* C31: the battery level of every device is unknown or within 0..100, and a
\* location update answered 200 that carries a level within 0..100 (0
\* included) leaves the device with that level.  (SpecBattery; violated: the
\* level is written unchecked, and only when it is truthy, so 0 is dropped)
C31_BatteryLevel ==
    /\ [](\A r \in devices :
             r.battery_level = NoNum \/ (r.battery_level >= 0 /\ r.battery_level <= 100))
    /\ [][(/\ last'.op = "locationUpdate"
           /\ last'.code = 200
           /\ last'.battery_level # NoNum
           /\ last'.battery_level >= 0
           /\ last'.battery_level <= 100)
          => (\A r \in devices' :
                 r.device_id = last'.deviceId => r.battery_level = last'.battery_level)]_vars

\* C32: every command-executed event just published names a command that is
\* in the store and was issued for the device named in the event.
\* (SpecEvents; violated: the handler publishes for any commandId once the
\* device of the path exists; updateCommandStatus of an unknown id changes
\* no row and raises nothing)
C32_EventNamesStoredCommand ==
    \A k \in 1..Len(published) :
        published[k].name = "command-executed" =>
            \E i \in 1..Len(commands) :
                /\ commands[i].id = published[k].commandId
                /\ commands[i].device_id = published[k].deviceId

\* the user at the other end of a connection: c1 is opened by user 1, any
\* other connection by user 2 (the server keeps no such record)
Operator(c) == IF c = "c1" THEN 1 ELSE 2

\* C33: a connection is in the user room or the dashboard room of its own
\* user only and in the device room of a device of its own user only, and
\* every event it receives is about a device of its own user.  (SpecEvents;
\* violated: the join handlers put any connection in the room it names)
C33_RoomsOfOwner ==
    \A c \in Conns :
        /\ \A u \in Users :
              (UserRoom(u) \in sockets[c].rooms \/ DashboardRoom(u) \in sockets[c].rooms)
                  => u = Operator(c)
        /\ \A d \in DeviceIds :
              DeviceRoom(d) \in sockets[c].rooms => Owns(Operator(c), d)
        /\ \A k \in 1..Len(sockets[c].inbox) :
              Owns(Operator(c), sockets[c].inbox[k].deviceId)

(***************************************************************************)
(* The command-response handler await by await: it writes the status,      *)
(* writes the log row, looks the device up and emits, then answers.        *)
(* Another handler can run between two of its awaits.                      *)
(***************************************************************************)
\* for comparison: the event goes out before the status is written
ResponseOrder_EmitFirst == <<"respEmit", "respLog", "respWrite">>

\* the order of the handler's awaits
ResponseOrder == <<"respWrite", "respLog", "respEmit">>

\* the await after the one a suspended handler is at ("done" after the last)
ResponseAfter(pc) ==
    LET k == CHOOSE i \in 1..Len(ResponseOrder) : ResponseOrder[i] = pc
    IN  IF k = Len(ResponseOrder) THEN "done" ELSE ResponseOrder[k + 1]

\* the handler goes on to its next await, or answers 200 after the last
ResponseAdvance(s) ==
    /\ inflight' = [inflight EXCEPT ![s] =
           IF ResponseAfter(inflight[s].pc) = "done" THEN Idle
           ELSE [inflight[s] EXCEPT !.pc = ResponseAfter(inflight[s].pc)]]
    /\ last' = IF ResponseAfter(inflight[s].pc) = "done"
               THEN [Reply("commandResponse", inflight[s].user, inflight[s].deviceId, 200, "")
                         EXCEPT !.commandId = inflight[s].commandId,
                                !.status = inflight[s].status]
               ELSE Step(s)

\* POST /api/devices/:deviceId/command-response, up to the check of the
\* body: 400, or the handler goes on and is kept in the lowest free slot s
CommandResponseStart(s, userId, deviceId, commandId, status) ==
    /\ IF FalsyNum(commandId) \/ Falsy(status)
       THEN /\ last' = [Reply("commandResponse", userId, deviceId, 400,
                              "Command ID and status are required")
                            EXCEPT !.commandId = commandId, !.status = status]
            /\ UNCHANGED inflight
       ELSE /\ inflight[s] = Idle
            /\ \A t \in Slots : t < s => inflight[t] # Idle
            /\ last' = [NoLast EXCEPT !.op = "createStep", !.user = userId]
            /\ inflight' = [inflight EXCEPT ![s] =
                   [Idle EXCEPT !.pc = ResponseOrder[1], !.route = "commandResponse",
                                !.user = userId, !.deviceId = deviceId,
                                !.commandId = commandId, !.status = status]]
    /\ published' = <<>>
    /\ UNCHANGED <<store, now>>
    /\ Deliver
    /\ UNCHANGED <<users, geofences>>

\* await db.updateCommandStatus(commandId, status, response || error || null)
CommandResponseWrite(s) ==
    /\ inflight[s].pc = "respWrite"
    /\ commands' = updateCommandStatus(commands, inflight[s].commandId,
                                       inflight[s].status, Null)
    /\ ResponseAdvance(s)
    /\ published' = <<>>
    /\ UNCHANGED <<devices, locations, device_logs, now>>
    /\ Deliver
    /\ UNCHANGED <<users, geofences>>

\* await db.logDeviceActivity(deviceId, 'command_response', ...)
CommandResponseLog(s) ==
    /\ inflight[s].pc = "respLog"
    /\ device_logs' = logDeviceActivity(device_logs, inflight[s].deviceId,
                                        "command_response")
    /\ ResponseAdvance(s)
    /\ published' = <<>>
    /\ UNCHANGED <<devices, commands, locations, now>>
    /\ Deliver
    /\ UNCHANGED <<users, geofences>>

\* const device = await db.getDeviceById(deviceId); if (device)
\* io.to(`dashboard-${device.user_id}`).emit('command-executed', ...)
CommandResponseEmit(s) ==
    LET device == getDeviceById(inflight[s].deviceId)
    IN  /\ inflight[s].pc = "respEmit"
        /\ published' = IF device # NoRow
                        THEN <<Event(DashboardRoom(device.user_id), "command-executed",
                                     inflight[s].deviceId, inflight[s].commandId,
                                     inflight[s].status)>>
                        ELSE <<>>
        /\ ResponseAdvance(s)
        /\ UNCHANGED <<store, now>>
        /\ Deliver
        /\ UNCHANGED <<users, geofences>>

(***************************************************************************)
(* Response order: two locate commands for d1 are stored and the device    *)
(* answers them (or sends no commandId) with completed or failed, several  *)
(* responses at a time, while dashboard connections of user 1 listen and   *)
(* the owner polls.                                                        *)
(***************************************************************************)
InitResponseOrder ==
    /\ now = 0
    /\ devices = {DeviceRow(1, "d1", "n1", Unknown, Unknown)}
    /\ commands = createCommand(createCommand(<<>>, "d1", 1, "REQUEST_LOCATION"),
                                "d1", 1, "REQUEST_LOCATION")
    /\ locations = <<>>
    /\ device_logs = SetToBag({LogRow("d1", "registration")})
    /\ published = <<>>
    /\ inflight = [s \in Slots |-> Idle]
    /\ last = NoLast
    /\ sockets = [c \in Conns |-> NoSocket]
    /\ users = SeedUsers
    /\ geofences = <<>>

NextResponseOrder ==
    \/ \E s \in Slots, c \in {NoNum, 1, 2}, st \in {"completed", "failed"} :
          CommandResponseStart(s, 1, "d1", c, st)
    \/ \E s \in Slots : CommandResponseWrite(s)
    \/ \E s \in Slots : CommandResponseLog(s)
    \/ \E s \in Slots : CommandResponseEmit(s)
    \/ \E c \in Conns : JoinDashboard(c, 1)
    \/ GetPending(1, "d1")

SpecResponseOrder == InitResponseOrder /\ [][NextResponseOrder]_vars

createGeofence(rows, deviceId, userId, name, centerLatitude, centerLongitude, radius) ==
    Append(rows, [id |-> Len(rows) + 1, device_id |-> deviceId, user_id |-> userId,
                  name |-> name, center_latitude |-> centerLatitude,
                  center_longitude |-> centerLongitude, radius_meters |-> radius,
                  alert_type |-> "both", is_active |-> 1])

\* POST /api/location/:deviceId/geofence
CreateGeofence(userId, deviceId, name, centerLatitude, centerLongitude, radius) ==
    LET req == [Reply("geofence", userId, deviceId, 0, "") EXCEPT
                    !.name = name, !.latitude = centerLatitude,
                    !.longitude = centerLongitude]
    IN  /\ IF Falsy(name) \/ FalsyNum(centerLatitude) \/ FalsyNum(centerLongitude)
                \/ FalsyNum(radius)
           THEN /\ last' = [req EXCEPT !.code = 400,
                              !.error = "Name, center coordinates, and radius are required"]
                /\ UNCHANGED <<device_logs, geofences>>
           ELSE IF NotOwned(getDeviceById(deviceId), userId)
           THEN /\ last' = [req EXCEPT !.code = 404, !.error = "Device not found"]
                /\ UNCHANGED <<device_logs, geofences>>
           ELSE /\ Len(geofences) < MaxLocations
                /\ geofences' = createGeofence(geofences, deviceId, userId, name,
                                               centerLatitude, centerLongitude, radius)
                /\ device_logs' = logDeviceActivity(device_logs, deviceId, "geofence_created")
                /\ last' = [req EXCEPT !.code = 201]
        /\ published' = <<>>
        /\ UNCHANGED <<devices, commands, locations, now, inflight, users>>
        /\ Deliver

(***************************************************************************)
(* Rejected requests: user 1 owns d1 and has created two commands for it;  *)
(* both users send the device and location requests for d1 with complete   *)
(* and incomplete bodies, and user 2 registers d2.                         *)
(***************************************************************************)
NextRejected ==
    \/ \E d \in {Undef, "d2"}, n \in {Undef, "n2"} : Register(2, d, n, Undef, Undef)
    \/ \E u \in Users, d \in DeviceIds : Heartbeat(u, d, "inactive")
    \/ \E c \in {NoNum, 1}, st \in {Undef, "completed"} :
          CommandResponse(1, "d1", c, st, [response |-> Undef, error |-> Undef], FALSE)
    \/ \E u \in Users : Read("getLogs", u, "d1")
    \/ \E u \in Users : DeleteDevice(u, "d1")
    \/ \E u \in Users, la \in {NoNum, 45} : LocationUpdate(u, "d1", la, 90, NoNum, FALSE)
    \/ \E u \in Users, n \in {Undef, "home"} : CreateGeofence(u, "d1", n, 45, 90, 100)

SpecRejected == InitResponseOrder /\ [][NextRejected]_vars

\* C35: a register, heartbeat, command-response, logs, delete, location
\* update or geofence request that is answered 400 or 404 leaves the
\* devices, commands, locations, logs and geofences as they were and
\* publishes no event.  (SpecRejected)
C35_RejectedWritesNothing ==
    [][(/\ last'.op \in {"register", "heartbeat", "commandResponse", "getLogs",
                         "delete", "locationUpdate", "geofence"}
        /\ last'.code \in {400, 404})
       => (/\ store' = store
           /\ geofences' = geofences
           /\ published' = <<>>)]_vars

\* C35 witness: user 2's location update for d1, a device of user 1 that
\* has commands, a location and a geofence, has been answered 404
C35_Witness ==
    /\ last.op = "locationUpdate" /\ last.code = 404 /\ last.user = 2
    /\ last.deviceId = "d1" /\ Owns(1, "d1")
    /\ Len(commands) > 0 /\ Len(locations) > 0 /\ Len(geofences) > 0

(***************************************************************************)
(* routes/auth.js, PUT /api/auth/profile                                   *)
(***************************************************************************)
\* /^[^\s@]+@[^\s@]+\.[^\s@]+$/.test(email), for the addresses sent here
EmailFormatOk(email) ==
    CASE email = "a@b.c" -> TRUE
      [] email = "x@y.z" -> TRUE
      [] OTHER -> FALSE

\* SELECT * FROM users WHERE id = ?
getUserById(userId) ==
    IF \E u \in users : u.id = userId
    THEN CHOOSE u \in users : u.id = userId
    ELSE NoUser

\* UPDATE users SET password_hash = ? WHERE id = ?
setPasswordHash(rows, userId, passwordHash) ==
    {IF u.id = userId THEN [u EXCEPT !.password_hash = passwordHash] ELSE u : u \in rows}

\* UPDATE users SET email = ? WHERE id = ?
setEmail(rows, userId, email) ==
    {IF u.id = userId THEN [u EXCEPT !.email = email] ELSE u : u \in rows}

\* PUT /api/auth/profile by the authenticated user userId: the password part
\* runs first and writes, the email part after it
UpdateProfile(userId, email, currentPassword, newPassword) ==
    LET req == [Reply("updateProfile", userId, Undef, 0, "") EXCEPT !.name = email]
        changesPassword ==
            /\ newPassword # <<>> /\ currentPassword # <<>>
            /\ bcryptCompare(currentPassword, getUserById(userId).password_hash)
            /\ Len(newPassword) >= 6
        hashed == IF changesPassword
                  THEN setPasswordHash(users, userId, bcryptHash(newPassword))
                  ELSE users
    IN  /\ IF Falsy(email) /\ newPassword = <<>>
           THEN /\ last' = [req EXCEPT !.code = 400,
                     !.error = "At least one field (email or password) must be provided"]
                /\ UNCHANGED users
           ELSE IF newPassword # <<>> /\ currentPassword = <<>>
           THEN /\ last' = [req EXCEPT !.code = 400,
                     !.error = "Current password required to change password"]
                /\ UNCHANGED users
           ELSE IF newPassword # <<>>
                   /\ ~bcryptCompare(currentPassword, getUserById(userId).password_hash)
           THEN /\ last' = [req EXCEPT !.code = 401,
                     !.error = "Current password is incorrect"]
                /\ UNCHANGED users
           ELSE IF newPassword # <<>> /\ Len(newPassword) < 6
           THEN /\ last' = [req EXCEPT !.code = 400,
                     !.error = "New password must be at least 6 characters long"]
                /\ UNCHANGED users
           ELSE IF ~Falsy(email) /\ ~EmailFormatOk(email)
           THEN /\ last' = [req EXCEPT !.code = 400, !.error = "Invalid email format"]
                /\ users' = hashed
           ELSE IF ~Falsy(email) /\ \E u \in users : u.id # userId /\ u.email = email
           THEN /\ last' = [req EXCEPT !.code = 500, !.error = "Failed to update profile"]
                /\ users' = hashed
           ELSE /\ last' = [req EXCEPT !.code = 200]
                /\ users' = IF Falsy(email) THEN hashed ELSE setEmail(hashed, userId, email)
        /\ published' = <<>>
        /\ UNCHANGED <<store, now, inflight, geofences>>
        /\ Deliver

(***************************************************************************)
(* Profiles: the two seeded users change their email and password, with    *)
(* and without a valid x-api-key header.                                   *)
(***************************************************************************)
NewPasswords == {<<>>, <<"p", "w">>, <<"l", "o", "n", "g", "e", "r">>}
CurrentPasswords == {<<>>, SeedPassword, <<"l", "o", "n", "g", "e", "r">>}
NewEmails == {Undef, "bad", "a@b.c", "x@y.z"}

NextProfile ==
    \/ \E k \in ApiKeys, e \in NewEmails, cp \in CurrentPasswords, np \in NewPasswords :
          Authenticated(k) /\ UpdateProfile(UserOf(k), e, cp, np)
    \/ \E k \in ApiKeys : Unauthorized(k, Undef)

SpecProfile == Init /\ [][NextProfile]_vars

\* C36: a profile update answered 400 or 401 leaves the users table as it
\* was.  (SpecProfile; violated: the password is written before the email
\* is validated)
C36_RejectedProfileUpdate ==
    [][(last'.op \in {"updateProfile", "unauthorized"} /\ last'.code \in {400, 401})
       => users' = users]_vars

\* C37: every row of commands, locations and device_logs names a device
\* that has a devices row.  (SpecRemoval; violated: foreign keys are not
\* enforced, the delete removes the devices row only and the writers do not
\* look the device up in the statement that writes)
C37_DependentRowsHaveDevice ==
    /\ \A i \in 1..Len(commands) : getDeviceById(commands[i].device_id) # NoRow
    /\ \A i \in 1..Len(locations) : getDeviceById(locations[i].device_id) # NoRow
    /\ \A l \in BagToSet(device_logs) : getDeviceById(l.device_id) # NoRow

(***************************************************************************)
(* routes/location.js, POST /api/location/batch-update.  A sample is an    *)
(* object of the locations array with latitude, longitude and timestamp    *)
(* (NoNum where the body has none).                                        *)
(***************************************************************************)
\* one pass of the loop body: fault "save" is db.saveLocation rejecting
LocationBatchPass(acc, deviceId, sample, fault) ==
    IF FalsyNum(sample.latitude) \/ FalsyNum(sample.longitude)
    THEN [acc EXCEPT !.results = Append(@, [timestamp |-> sample.timestamp,
                                            success |-> FALSE, locationId |-> NoNum,
                                            error |-> "Missing coordinates"])]
    ELSE IF fault = "save"
    THEN [acc EXCEPT !.results = Append(@, [timestamp |-> sample.timestamp,
                                            success |-> FALSE, locationId |-> NoNum,
                                            error |-> StoreError])]
    ELSE LET stamp == IF FalsyNum(sample.timestamp) THEN now ELSE sample.timestamp
             row == [id |-> NextId(acc.locations), device_id |-> deviceId,
                     latitude |-> sample.latitude, longitude |-> sample.longitude,
                     accuracy |-> NoNum, source |-> "gps", timestamp |-> stamp]
         IN  [acc EXCEPT !.locations = Append(@, row),
                         !.results = Append(@, [timestamp |-> stamp, success |-> TRUE,
                                                locationId |-> row.id, error |-> ""])]

\* for comparison: a loop that ends at the first sample that fails
RECURSIVE LocationBatchLoop_StopsAtFailure(_, _, _, _, _)
LocationBatchLoop_StopsAtFailure(acc, deviceId, samples, faults, i) ==
    IF i > Len(samples) THEN acc
    ELSE IF Len(acc.results) > 0 /\ ~acc.results[Len(acc.results)].success THEN acc
    ELSE LocationBatchLoop_StopsAtFailure(
             LocationBatchPass(acc, deviceId, samples[i], faults[i]),
             deviceId, samples, faults, i + 1)

\* for (const locationData of locations) { try { ... } catch (error) { ... } }
RECURSIVE LocationBatchLoop(_, _, _, _, _)
LocationBatchLoop(acc, deviceId, samples, faults, i) ==
    IF i > Len(samples) THEN acc
    ELSE LocationBatchLoop(LocationBatchPass(acc, deviceId, samples[i], faults[i]),
                           deviceId, samples, faults, i + 1)

\* results.filter(r => r.success).length
SuccessCount(results) == Cardinality({i \in 1..Len(results) : results[i].success})

\* POST /api/location/batch-update.  isArray: the body has a locations
\* array; tailFault: a store call after the loop rejects, which the outer
\* catch answers with 500
BatchUpdate(userId, deviceId, isArray, samples, faults, tailFault) ==
    LET req == [Reply("batchUpdate", userId, deviceId, 0, "") EXCEPT !.samples = samples]
        acc == LocationBatchLoop([locations |-> locations, results |-> <<>>],
                                 deviceId, samples, faults, 1)
    IN  /\ IF Falsy(deviceId) \/ ~isArray
           THEN /\ last' = [req EXCEPT !.code = 400,
                                 !.error = "Device ID and locations array are required"]
                /\ UNCHANGED store
           ELSE IF NotOwned(getDeviceById(deviceId), userId)
           THEN /\ last' = [req EXCEPT !.code = 404, !.error = "Device not found"]
                /\ UNCHANGED store
           ELSE /\ Len(acc.locations) <= MaxLocations
                /\ locations' = acc.locations
                /\ IF tailFault
                   THEN /\ last' = [req EXCEPT !.code = 500,
                                 !.error = "Failed to process batch location update"]
                        /\ UNCHANGED <<devices, device_logs>>
                   ELSE /\ devices' = updateDeviceLastSeen(devices, deviceId)
                        /\ device_logs' = logDeviceActivity(device_logs, deviceId,
                                                            "batch_location_update")
                        /\ last' = [req EXCEPT !.code = 200, !.results = acc.results,
                                      !.successCount = SuccessCount(acc.results),
                                      !.errorCount = Len(acc.results) - SuccessCount(acc.results)]
                /\ UNCHANGED commands
        /\ published' = <<>>
        /\ UNCHANGED <<now, inflight>>
        /\ Deliver
        /\ UNCHANGED <<users, geofences>>

(***************************************************************************)
(* Batch location updates: user 1 owns d1 and posts batches of samples     *)
(* with and without coordinates and timestamps, of which any store call    *)
(* may reject; user 2 posts for d1, bodies lack the deviceId or the array,  *)
(* both users read the latest location and the device sends heartbeats.    *)
(***************************************************************************)
BatchSamples ==
    {[latitude |-> 45, longitude |-> 90, timestamp |-> 7],
     [latitude |-> 45, longitude |-> 90, timestamp |-> NoNum],
     [latitude |-> 0, longitude |-> 90, timestamp |-> 9]}

SampleLists == UNION {[1..n -> BatchSamples] : n \in 0..MaxBatch}

NextBatchUpdate ==
    \/ \E S \in SampleLists : \E f \in [1..Len(S) -> {"none", "save"}] :
          BatchUpdate(1, "d1", TRUE, S, f, FALSE)
    \/ \E S \in SampleLists :
          Len(S) = 1 /\ BatchUpdate(1, "d1", TRUE, S, [i \in 1..Len(S) |-> "none"], TRUE)
    \/ \E S \in SampleLists, d \in {Undef, "d1"}, a \in BOOLEAN :
          Len(S) = 1 /\ BatchUpdate(2, d, a, S, [i \in 1..Len(S) |-> "none"], FALSE)
    \/ \E u \in Users : Read("latestLocation", u, "d1")
    \/ Heartbeat(1, "d1", "inactive")

SpecBatchUpdate == InitConcurrent /\ [][NextBatchUpdate]_vars

setApiKey_AllRows(rows, userId, apiKey) == {[u EXCEPT !.api_key = apiKey] : u \in rows}

\* UPDATE users SET api_key = ? WHERE id = ?
setApiKey(rows, userId, apiKey) ==
    {IF u.id = userId THEN [u EXCEPT !.api_key = apiKey] ELSE u : u \in rows}

\* POST /api/auth/refresh-api-key with the x-api-key header apiKey, which
\* the middleware has accepted
RefreshApiKey(apiKey) ==
    LET user == getUserByApiKey(apiKey)
        newApiKey == NewApiKey(users)
    IN  /\ Authenticated(apiKey)
        /\ LastKey(users) < MaxKeys
        /\ users' = setApiKey(users, user.id, newApiKey)
        /\ last' = [Reply("refreshApiKey", user.id, Undef, 200, "") EXCEPT
                        !.prev = apiKey, !.token = newApiKey]
        /\ published' = <<>>
        /\ UNCHANGED <<store, now, inflight, geofences>>
        /\ Deliver

(***************************************************************************)
(* Keys: the seeded users refresh their keys and send heartbeats for d1    *)
(* with current, retired and unknown keys.                                 *)
(***************************************************************************)
KeyPool == {Undef} \cup {"k" \o ToString(n) : n \in 0..MaxKeys}

NextKeys ==
    \/ \E k \in KeyPool : RefreshApiKey(k)
    \/ \E k \in KeyPool : Unauthorized(k, "d1")
    \/ \E k \in KeyPool : Authenticated(k) /\ Heartbeat(UserOf(k), "d1", Undef)

SpecKeys == InitConcurrent /\ [][NextKeys]_vars

\* C39: no two users have the same API key; after a refresh answered 200
\* no user has the key the request came with and the user who sent it has
\* the key returned; and a key that was retired is never a user's key
\* again, so it authenticates nothing.  (SpecKeys)
C39_RefreshRetiresKey ==
    /\ [](\A u1, u2 \in users : u1.api_key = u2.api_key => u1 = u2)
    /\ [][(last'.op = "refreshApiKey" /\ last'.code = 200) =>
             /\ \A u \in users' : u.api_key # last'.prev
             /\ \E u \in users : u.api_key = last'.prev /\ u.id = last'.user
             /\ \E u \in users' : u.api_key = last'.token /\ u.id = last'.user
             /\ \A u \in users : u.api_key # last'.token]_vars
    /\ [][\A k \in KeyPool \ {Undef} :
             (KeyIndex(k) <= LastKey(users) /\ \A u \in users : u.api_key # k)
                 => \A u \in users' : u.api_key # k]_vars

\* C39 witness: user 1 has refreshed the key, a request with the previous
\* key k1 has just been answered 401, and the new key is user 1's
C39_Witness ==
    /\ last.op = "unauthorized" /\ last.code = 401 /\ last.token = "k1"
    /\ \E u \in users : u.id = 1 /\ u.api_key # "k1" /\ Authenticated(u.api_key)

(***************************************************************************)
(* The control flow of the device and location handlers.  Each handler is  *)
(* one try block whose catch answers 500; its statements, in order, are    *)
(*   guard  a check that answers with a code and returns when it fails     *)
(*   call   an awaited store call (or a Promise.all of them), may throw    *)
(*   tried  a store call inside the loop's own try/catch                   *)
(*   emit   io.to(...).emit(...), may throw                                *)
(*   send   res.json / res.status(201).json, the last statement            *)
(***************************************************************************)
Guard(code) == [kind |-> "guard", code |-> code]
Call == [kind |-> "call", code |-> 0]
Tried == [kind |-> "tried", code |-> 0]
Emit == [kind |-> "emit", code |-> 0]
Send(code) == [kind |-> "send", code |-> code]

Handlers ==
    [register |-> <<Guard(400), Call, Call, Send(201)>>,
     listDevices |-> <<Call, Call, Send(200)>>,
     getDevice |-> <<Call, Guard(404), Guard(403), Call, Send(200)>>,
     heartbeat |-> <<Call, Guard(404), Call, Call, Call, Send(200)>>,
     commandResponse |-> <<Guard(400), Call, Call, Call, Emit, Send(200)>>,
     getLogs |-> <<Call, Guard(404), Call, Send(200)>>,
     delete |-> <<Call, Guard(404), Call, Send(200)>>,
     statistics |-> <<Call, Send(200)>>,
     locationUpdate |-> <<Guard(400), Call, Guard(404), Call, Call, Call, Call, Emit,
                          Send(200)>>,
     latestLocation |-> <<Call, Guard(404), Call, Guard(404), Send(200)>>,
     history |-> <<Call, Guard(404), Call, Send(200)>>,
     allLocations |-> <<Call, Call, Send(200)>>,
     geofence |-> <<Guard(400), Call, Guard(404), Call, Call, Send(201)>>,
     geofences |-> <<Call, Guard(404), Call, Send(200)>>,
     deleteGeofence |-> <<Call, Guard(404), Call, Call, Send(200)>>,
     batchUpdate |-> <<Guard(400), Call, Guard(404), Tried, Call, Call, Send(200)>>]

\* for comparison: a failed guard answers but does not return
RECURSIVE Exec_NoReturn(_, _, _, _)
Exec_NoReturn(prog, path, i, sent) ==
    IF i > Len(prog) THEN sent
    ELSE IF prog[i].kind = "send"
    THEN Exec_NoReturn(prog, path, i + 1, Append(sent, prog[i].code))
    ELSE IF path[i] = "ok" \/ prog[i].kind = "tried"
    THEN Exec_NoReturn(prog, path, i + 1, sent)
    ELSE IF prog[i].kind = "guard"
    THEN Exec_NoReturn(prog, path, i + 1, Append(sent, prog[i].code))
    ELSE Append(sent, 500)

\* the responses a handler sends, in order, when statement i has the
\* outcome path[i]: "ok", or "fail" (the check fails, the call throws)
RECURSIVE Exec(_, _, _, _)
Exec(prog, path, i, sent) ==
    IF i > Len(prog) THEN sent
    ELSE IF prog[i].kind = "send"
    THEN Exec(prog, path, i + 1, Append(sent, prog[i].code))
    ELSE IF path[i] = "ok" \/ prog[i].kind = "tried"
    THEN Exec(prog, path, i + 1, sent)
    ELSE IF prog[i].kind = "guard"
    THEN Append(sent, prog[i].code)
    ELSE Append(sent, 500)

\* one request to a route, taken along a path
HandlerRun(route, path) ==
    /\ last' = [NoLast EXCEPT !.op = route, !.path = path,
                              !.sent = Exec(Handlers[route], path, 1, <<>>)]
    /\ published' = <<>>
    /\ UNCHANGED <<store, now, inflight>>
    /\ Deliver
    /\ UNCHANGED <<users, geofences>>

NextResponses ==
    \E route \in DOMAIN Handlers :
        \E path \in [1..Len(Handlers[route]) -> {"ok", "fail"}] : HandlerRun(route, path)

SpecResponses == Init /\ [][NextResponses]_vars

\* the first statement of the route that ends the path early: the first
\* guard that fails or call that throws (0 if there is none)
FirstBreak(route, path) ==
    LET prog == Handlers[route]
        breaks == {i \in 1..Len(prog) :
                      prog[i].kind \in {"guard", "call", "emit"} /\ path[i] = "fail"}
    IN  IF breaks = {} THEN 0
        ELSE CHOOSE i \in breaks : \A j \in breaks : i <= j

\* C40: a request to a device or location route gets exactly one response
\* on every path, and the response is a 500 when a store call or the emit
\* throws.  (SpecResponses)
C40_ExactlyOneResponse ==
    last.op \in DOMAIN Handlers =>
        LET k == FirstBreak(last.op, last.path)
        IN  /\ Len(last.sent) = 1
            /\ (k # 0 /\ Handlers[last.op][k].kind \in {"call", "emit"})
                  => last.sent = <<500>>
            /\ k = 0 => last.sent[1] \in {200, 201}

\* C40 witness: a command-response whose store calls succeeded and whose
\* emit threw has been answered once, with 500
C40_Witness ==
    /\ last.op = "commandResponse"
    /\ last.path = <<"ok", "ok", "ok", "ok", "fail", "ok">>
    /\ last.sent = <<500>>

(***************************************************************************)
(* The complete system: every route and socket handler with every input.   *)
(***************************************************************************)
Next ==
    \/ \E u \in Users, d \in DeviceIds \cup {Undef}, n \in DeviceNames,
          m \in DeviceModels, v \in AndroidVersions : Register(u, d, n, m, v)
    \/ \E u \in Users, d \in DeviceIds, st \in HeartbeatStatuses : Heartbeat(u, d, st)
    \/ \E u \in Users, d \in DeviceIds : DeleteDevice(u, d)
    \/ \E u \in Users, d \in DeviceIds, c \in CommandIds, st \in ResolveStatuses,
          r \in ResolveDetails, x \in BOOLEAN : CommandResponse(u, d, c, st, r, x)
    \/ \E s \in Slots, u \in Users, d \in DeviceIds, r \in Routes,
          t \in WipeTokens : CreateStart(s, u, d, r, t)
    \/ \E s \in Slots : CreateInsert(s)
    \/ \E s \in Slots : CreateFlag(s)
    \/ \E s \in Slots : CreateLog(s)
    \/ \E s \in Slots : CreateRespond(s)
    \/ \E u \in Users, d \in DeviceIds : GetPending(u, d)
    \/ \E u \in Users, devs \in BatchDevices, t \in BatchTypes :
          \E f \in [1..Len(devs) -> Faults] : BatchCommand(u, devs, t, f)
    \/ \E u \in Users, d \in DeviceIds, la \in Latitudes, lo \in Longitudes,
          b \in BatteryLevels, x \in BOOLEAN : LocationUpdate(u, d, la, lo, b, x)
    \/ \E r \in ReadRoutes, u \in Users, d \in DeviceIds : Read(r, u, d)
    \/ \E u \in Users : ListDevices(u)
    \/ \E c \in Conns, d \in DeviceIds : JoinDevice(c, d)
    \/ \E c \in Conns, u \in Users : JoinDashboard(c, u)
    \/ \E c \in Conns, u \in Users : JoinUserRoom(c, u)
    \/ \E s \in Slots, n \in Usernames, e \in Emails, p \in Passwords :
          AuthRegisterStart(s, n, e, p)
    \/ \E s \in Slots : AuthRegisterCreate(s)
    \/ \E k \in ApiKeys, d \in DeviceIds : Unauthorized(k, d)
    \/ \E u \in Users, d \in DeviceIds, q \in Queries : History(u, d, q)
    \/ \E c \in Conns, d \in DeviceIds, u \in Users, la \in Latitudes \ {NoNum},
          lo \in Longitudes \ {NoNum} : SocketLocationUpdate(c, d, u, la, lo)
    \/ \E c \in Conns, d \in DeviceIds, u \in Users, st \in HeartbeatStatuses :
          SocketDeviceStatus(c, d, u, st)
    \/ \E c \in Conns : Disconnect(c)
    \/ \E s \in Slots, u \in Users, d \in DeviceIds, c \in CommandIds,
          st \in ResolveStatuses : CommandResponseStart(s, u, d, c, st)
    \/ \E s \in Slots : CommandResponseWrite(s)
    \/ \E s \in Slots : CommandResponseLog(s)
    \/ \E s \in Slots : CommandResponseEmit(s)
    \/ \E u \in Users, d \in DeviceIds, n \in DeviceNames, la \in Latitudes,
          lo \in Longitudes, r \in {NoNum, 100} : CreateGeofence(u, d, n, la, lo, r)
    \/ \E u \in Users, e \in NewEmails, cp \in CurrentPasswords, np \in NewPasswords :
          UpdateProfile(u, e, cp, np)
    \/ \E u \in Users, d \in DeviceIds \cup {Undef}, a \in BOOLEAN, S \in SampleLists,
          t \in BOOLEAN :
          \E f \in [1..Len(S) -> {"none", "save"}] : BatchUpdate(u, d, a, S, f, t)
    \/ \E k \in KeyPool : RefreshApiKey(k)
    \/ Tick

Spec == Init /\ [][Next]_vars

====
